---- MODULE Spec2Model ----
(***************************************************************************)
(* Retro TV: the schedule manager (bin/schedule_manager.py) and the        *)
(* schedule-aware epoch position of the web control panel                  *)
(* (tv-web-control.py).                                                    *)
(*                                                                         *)
(* Python values are modelled as follows.  A dict is a function whose      *)
(* DOMAIN is its key set ({} is the empty function << >>); a list is a     *)
(* sequence; None is the record NoneValue.  A time-of-day is the string    *)
(* the program stores ("08:00"); the program compares these strings with   *)
(* Python's lexicographic order, modelled by StrRank, while the claims     *)
(* read them as minutes since midnight, modelled by Minutes.               *)
(***************************************************************************)
EXTENDS Integers, Sequences, FiniteSets, TLC

VARIABLES
    config,       \* content of CONFIG_FILE (schedule_config.json)
    STATE_FILE,   \* the persisted override state (schedule_state.json)
    before,       \* STATE_FILE as it was when the latest mutation call began
    hist,         \* the mutation calls made so far, oldest first
    index_tsv,    \* the playlist of the station looked at (index.tsv)
    clock,        \* the latest reading of datetime.now()
    res,          \* the value the latest resolution call returned
    tmp,          \* the file at str(STATE_FILE) + ".tmp"
    writers,      \* the save_state calls in flight, by calling process
    SEEN_IDS,     \* the file at SEEN_IDS_PATH (eas_seen_ids.json)
    PENDING_DIR   \* the alert files in PENDING_DIR (eas_pending)

vars == <<config, STATE_FILE, before, hist, index_tsv, clock, res, tmp,
          writers, SEEN_IDS, PENDING_DIR>>

----------------------------------------------------------------------------
(* Bounds of the model                                                     *)

MaxOps == 3        \* mutation calls per behaviour
MaxBlocks == 2     \* blocks in a hand-written default bucket
MaxEntries == 2    \* entries of a playlist
MaxDur == 2        \* seconds an entry of a playlist lasts
MaxEpoch == 5      \* the epoch seconds 0..MaxEpoch are read from the clock
MaxChunks == 2     \* write() calls json.dump makes for one state

----------------------------------------------------------------------------
(* Python helpers                                                          *)

EmptyDict == << >>

NoneValue == [found |-> FALSE]

(* A path with no file at it, and no process inside save_state             *)
NoFile == [exists |-> FALSE]

(* An empty directory of pending alerts: the files of the alerts that are  *)
(* followed by id, and the number of the other files                       *)
NoPending == [files |-> {}, others |-> 0]

Writers == {"w1", "w2"}

Idle == [pc |-> "idle", state |-> EmptyDict, fd |-> "none", next |-> 0]

NoWriters == [w \in Writers |-> Idle]

Get(d, k, dflt) == IF k \in DOMAIN d THEN d[k] ELSE dflt

Put(d, k, v) == [x \in (DOMAIN d) \cup {k} |-> IF x = k THEN v ELSE d[x]]

(* The strings that occur as times of day, in Python's str order: ""      *)
(* sorts first, then character by character.                               *)
StrRank(s) ==
    CASE s = ""      -> 1
      [] s = "00:00" -> 2
      [] s = "08:00" -> 3
      [] s = "08:30" -> 4
      [] s = "09:00" -> 5
      [] s = "10:00" -> 6
      [] s = "23:59" -> 7
      [] s = "24:00" -> 8

StrLess(a, b) == StrRank(a) < StrRank(b)

StrLeq(a, b) == StrRank(a) <= StrRank(b)

(* The same strings read as "HH:MM": minutes since midnight                *)
Minutes(s) ==
    CASE s = "00:00" -> 0
      [] s = "08:00" -> 480
      [] s = "08:30" -> 510
      [] s = "09:00" -> 540
      [] s = "10:00" -> 600
      [] s = "23:59" -> 1439
      [] s = "24:00" -> 1440

----------------------------------------------------------------------------
(* schedule_manager.py                                                     *)

DAYS ==
    <<"monday", "tuesday", "wednesday", "thursday", "friday", "saturday",
      "sunday">>

DaySet == {DAYS[i] : i \in 1..Len(DAYS)}

(* channels.tsv: channel number -> channel info                            *)
get_channels ==
    [num \in {"2", "3", "4", "5"} |->
        CASE num = "2" -> [number |-> 2, name |-> "WEATHER",
                           station |-> "WEATHER", enabled |-> TRUE]
          [] num = "3" -> [number |-> 3, name |-> "NEWS",
                           station |-> "NEWS", enabled |-> TRUE]
          [] num = "4" -> [number |-> 4, name |-> "MTV",
                           station |-> "MTV", enabled |-> TRUE]
          [] num = "5" -> [number |-> 5, name |-> "CSPAN",
                           station |-> "CSPAN", enabled |-> TRUE]]

(* channel_to_station answering with a station for a number that is not   *)
(* in channels.tsv                                                         *)
channel_to_station_any(channel_number) ==
    LET ch_info == Get(get_channels, channel_number, get_channels["2"])
    IN  Get(ch_info, "station", "")

channel_to_station(channel_number) ==
    LET ch_info == Get(get_channels, channel_number, EmptyDict)
    IN  Get(ch_info, "station", "")

load_config == config

load_state ==
    IF STATE_FILE.exists
    THEN STATE_FILE.data
    ELSE [schedule |-> EmptyDict, overrides |-> EmptyDict]

save_state(state) == [exists |-> TRUE, data |-> state]

get_shows(cfg) == Get(cfg, "shows", EmptyDict)

(* get_schedule falling back to the default when the override bucket of   *)
(* the day holds no block                                                  *)
get_schedule_nonempty(cfg, state) ==
    LET base      == Get(cfg, "default_schedule", EmptyDict)
        overrides == Get(state, "schedule", EmptyDict)
    IN  [day \in DaySet |->
            IF /\ day \in DOMAIN overrides
               /\ \E st \in DOMAIN overrides[day] : overrides[day][st] # << >>
            THEN overrides[day]
            ELSE Get(base, day, EmptyDict)]

(* get_schedule merging station by station within a day                    *)
get_schedule_perstation(cfg, state) ==
    LET base      == Get(cfg, "default_schedule", EmptyDict)
        overrides == Get(state, "schedule", EmptyDict)
    IN  [day \in DaySet |->
            LET dflt == Get(base, day, EmptyDict)
                over == Get(overrides, day, EmptyDict)
            IN  [st \in DOMAIN dflt \cup DOMAIN over |->
                    Get(over, st, Get(dflt, st, << >>))]]

get_schedule(cfg, state) ==
    LET base      == Get(cfg, "default_schedule", EmptyDict)
        overrides == Get(state, "schedule", EmptyDict)
    IN  [day \in DaySet |-> Get(overrides, day, Get(base, day, EmptyDict))]

(* best_block keeping the first covering block it meets                    *)
RECURSIVE best_block_first(_, _, _)
best_block_first(blocks, current_time, best) ==
    IF blocks = << >>
    THEN best
    ELSE LET block   == Head(blocks)
             start   == Get(block, "start", "00:00")
             end     == Get(block, "end", "")
             end_eff == IF end = "" \/ end = "00:00" THEN "24:00" ELSE end
             covers  == StrLeq(start, current_time)
                        /\ StrLess(current_time, end_eff)
         IN  best_block_first(Tail(blocks), current_time,
                              IF covers /\ ~best.found
                              THEN [found |-> TRUE, block |-> block]
                              ELSE best)

(* best_block with the end of a block included in its interval             *)
RECURSIVE best_block_closed(_, _, _)
best_block_closed(blocks, current_time, best) ==
    IF blocks = << >>
    THEN best
    ELSE LET block   == Head(blocks)
             start   == Get(block, "start", "00:00")
             end     == Get(block, "end", "")
             end_eff == IF end = "" \/ end = "00:00" THEN "24:00" ELSE end
             covers  == StrLeq(start, current_time)
                        /\ StrLeq(current_time, end_eff)
             better  == \/ ~best.found
                        \/ /\ best.found
                           /\ StrLess(Get(best.block, "start", "00:00"), start)
         IN  best_block_closed(Tail(blocks), current_time,
                               IF covers /\ better
                               THEN [found |-> TRUE, block |-> block]
                               ELSE best)

(* best_block taking only the empty end, not "00:00", as the end of day    *)
RECURSIVE best_block_midnight(_, _, _)
best_block_midnight(blocks, current_time, best) ==
    IF blocks = << >>
    THEN best
    ELSE LET block   == Head(blocks)
             start   == Get(block, "start", "00:00")
             end     == Get(block, "end", "")
             end_eff == IF end = "" THEN "24:00" ELSE end
             covers  == StrLeq(start, current_time)
                        /\ StrLess(current_time, end_eff)
             better  == \/ ~best.found
                        \/ /\ best.found
                           /\ StrLess(Get(best.block, "start", "00:00"), start)
         IN  best_block_midnight(Tail(blocks), current_time,
                                 IF covers /\ better
                                 THEN [found |-> TRUE, block |-> block]
                                 ELSE best)

(* The loop at lines 126-135: the covering block with the latest start;   *)
(* a later block replaces best only when its start is strictly greater.    *)
RECURSIVE best_block(_, _, _)
best_block(blocks, current_time, best) ==
    IF blocks = << >>
    THEN best
    ELSE LET block   == Head(blocks)
             start   == Get(block, "start", "00:00")
             end     == Get(block, "end", "")
             end_eff == IF end = "" \/ end = "00:00" THEN "24:00" ELSE end
             covers  == StrLeq(start, current_time)
                        /\ StrLess(current_time, end_eff)
             better  == \/ ~best.found
                        \/ /\ best.found
                           /\ StrLess(Get(best.block, "start", "00:00"), start)
         IN  best_block(Tail(blocks), current_time,
                        IF covers /\ better
                        THEN [found |-> TRUE, block |-> block]
                        ELSE best)

(* now is the reading of datetime.now(): [day, time]                       *)
resolve_now(cfg, state, channel_number, now) ==
    LET day          == now.day
        current_time == now.time
        schedule     == get_schedule(cfg, state)
        day_schedule == Get(schedule, day, EmptyDict)
        station_key  == channel_to_station(channel_number)
        blocks       == IF station_key # ""
                        THEN Get(day_schedule, station_key, << >>)
                        ELSE << >>
        shows        == get_shows(cfg)
        best         == best_block(blocks, current_time, NoneValue)
    IN  IF blocks = << >>
        THEN NoneValue
        ELSE IF best.found
             THEN [found   |-> TRUE,
                   show_id |-> best.block.show_id,
                   show    |-> Get(shows, best.block.show_id, EmptyDict),
                   block   |-> best.block]
             ELSE NoneValue

(* list.sort(key=start): a stable insertion by the string order            *)
RECURSIVE insert_by_start(_, _)
insert_by_start(b, sorted) ==
    IF sorted = << >>
    THEN <<b>>
    ELSE LET last == sorted[Len(sorted)]
         IN  IF StrLess(Get(b, "start", "00:00"), Get(last, "start", "00:00"))
             THEN Append(insert_by_start(b, SubSeq(sorted, 1, Len(sorted) - 1)),
                         last)
             ELSE Append(sorted, b)

RECURSIVE sort_by_start(_)
sort_by_start(blocks) ==
    IF blocks = << >>
    THEN << >>
    ELSE insert_by_start(blocks[Len(blocks)],
                         sort_by_start(SubSeq(blocks, 1, Len(blocks) - 1)))

(* set_block appending without the re-sort                                 *)
set_block_unsorted(day, station, start, end, show_id) ==
    LET state   == load_state
        sched0  == Get(state, "schedule", EmptyDict)
        sched1  == IF day \in DOMAIN sched0
                   THEN sched0
                   ELSE Put(sched0, day,
                            Get(Get(load_config, "default_schedule", EmptyDict),
                                day, EmptyDict))
        bucket0 == sched1[day]
        bucket1 == IF station \in DOMAIN bucket0
                   THEN bucket0
                   ELSE Put(bucket0, station, << >>)
        blocks0 == bucket1[station]
        blocks1 == SelectSeq(blocks0, LAMBDA b : Get(b, "start", "") # start)
        blocks2 == Append(blocks1,
                          [start |-> start, end |-> end, show_id |-> show_id])
    IN  Put(state, "schedule", Put(sched1, day, Put(bucket1, station, blocks2)))

(* set_block keeping the block that has the same start                     *)
set_block_keep(day, station, start, end, show_id) ==
    LET state   == load_state
        sched0  == Get(state, "schedule", EmptyDict)
        sched1  == IF day \in DOMAIN sched0
                   THEN sched0
                   ELSE Put(sched0, day,
                            Get(Get(load_config, "default_schedule", EmptyDict),
                                day, EmptyDict))
        bucket0 == sched1[day]
        bucket1 == IF station \in DOMAIN bucket0
                   THEN bucket0
                   ELSE Put(bucket0, station, << >>)
        blocks0 == bucket1[station]
        blocks2 == Append(blocks0,
                          [start |-> start, end |-> end, show_id |-> show_id])
        blocks3 == sort_by_start(blocks2)
    IN  Put(state, "schedule", Put(sched1, day, Put(bucket1, station, blocks3)))

(* set_block starting a new day from an empty bucket, not from the default *)
set_block_unseeded(day, station, start, end, show_id) ==
    LET state   == load_state
        sched0  == Get(state, "schedule", EmptyDict)
        sched1  == IF day \in DOMAIN sched0
                   THEN sched0
                   ELSE Put(sched0, day, EmptyDict)
        bucket0 == sched1[day]
        bucket1 == IF station \in DOMAIN bucket0
                   THEN bucket0
                   ELSE Put(bucket0, station, << >>)
        blocks0 == bucket1[station]
        blocks1 == SelectSeq(blocks0, LAMBDA b : Get(b, "start", "") # start)
        blocks2 == Append(blocks1,
                          [start |-> start, end |-> end, show_id |-> show_id])
        blocks3 == sort_by_start(blocks2)
    IN  Put(state, "schedule", Put(sched1, day, Put(bucket1, station, blocks3)))

(* The state set_block hands to save_state                                 *)
(* The body of set_block, lines 178-192, on the state load_state returned  *)
set_block_on(state, day, station, start, end, show_id) ==
    LET sched0  == Get(state, "schedule", EmptyDict)
        sched1  == IF day \in DOMAIN sched0
                   THEN sched0
                   ELSE Put(sched0, day,
                            Get(Get(load_config, "default_schedule", EmptyDict),
                                day, EmptyDict))
        bucket0 == sched1[day]
        bucket1 == IF station \in DOMAIN bucket0
                   THEN bucket0
                   ELSE Put(bucket0, station, << >>)
        blocks0 == bucket1[station]
        blocks1 == SelectSeq(blocks0, LAMBDA b : Get(b, "start", "") # start)
        blocks2 == Append(blocks1,
                          [start |-> start, end |-> end, show_id |-> show_id])
        blocks3 == sort_by_start(blocks2)
    IN  Put(state, "schedule", Put(sched1, day, Put(bucket1, station, blocks3)))

(* set_block writing back the day it changed and no other                  *)
set_block_single_day(day, station, start, end, show_id) ==
    LET state == set_block_on(load_state, day, station, start, end, show_id)
    IN  Put(state, "schedule", [d \in {day} |-> state.schedule[d]])

set_block(day, station, start, end, show_id) ==
    set_block_on(load_state, day, station, start, end, show_id)

(* remove_block saves only when the day and the station are in the state   *)
remove_block_hits_on(state, day, station) ==
    LET sched == Get(state, "schedule", EmptyDict)
    IN  day \in DOMAIN sched /\ station \in DOMAIN sched[day]

remove_block_hits(day, station) ==
    remove_block_hits_on(load_state, day, station)

(* remove_block without its filter: the bucket is written back as it was   *)
remove_block_nofilter(day, station, start) ==
    load_state

(* remove_block emptying the bucket instead of filtering it                *)
remove_block_all(day, station, start) ==
    LET state == load_state
        sched == state.schedule
    IN  Put(state, "schedule", Put(sched, day, Put(sched[day], station, << >>)))

(* the body of remove_block emptying the bucket instead of filtering it    *)
remove_block_on_all(state, day, station, start) ==
    LET sched == state.schedule
    IN  Put(state, "schedule", Put(sched, day, Put(sched[day], station, << >>)))

(* The body of remove_block, lines 201-204, on the state load_state        *)
(* returned                                                                *)
remove_block_on(state, day, station, start) ==
    LET sched  == state.schedule
        blocks == sched[day][station]
        kept   == SelectSeq(blocks, LAMBDA b : Get(b, "start", "") # start)
    IN  Put(state, "schedule", Put(sched, day, Put(sched[day], station, kept)))

remove_block(day, station, start) ==
    remove_block_on(load_state, day, station, start)

(* reset_schedule clearing the unused "overrides" key only                 *)
reset_schedule_overrides == Put(load_state, "overrides", EmptyDict)

reset_schedule_on(state) == Put(state, "schedule", EmptyDict)

reset_schedule == reset_schedule_on(load_state)

----------------------------------------------------------------------------
(* tv-web-control.py                                                       *)

(* str.upper and str.lower on the station names of channels.tsv            *)
Upper(name) ==
    CASE name = "weather" -> "WEATHER"
      [] name = "news"    -> "NEWS"
      [] name = "mtv"     -> "MTV"
      [] name = "cspan"   -> "CSPAN"
      [] OTHER            -> name

Lower(name) ==
    CASE name = "WEATHER" -> "weather"
      [] name = "NEWS"    -> "news"
      [] name = "MTV"     -> "mtv"
      [] name = "CSPAN"   -> "cspan"
      [] OTHER            -> name

(* name.startswith('MTV')                                                  *)
StartsWithMTV(name) == name \in {"MTV", "MTV1985"}

(* state/mtv_meta: artist <TAB> title                                      *)
mtv_meta == [exists |-> TRUE, artist |-> "Artist", title |-> "Title"]

(* config/youtube_channels.json                                            *)
get_youtube_channels == [name \in {"CSPAN"} |-> [name |-> "C-SPAN"]]

read_channels ==
    <<[number |-> "2", name |-> "WEATHER", enabled |-> TRUE],
      [number |-> "3", name |-> "NEWS", enabled |-> TRUE],
      [number |-> "4", name |-> "MTV", enabled |-> TRUE],
      [number |-> "5", name |-> "CSPAN", enabled |-> TRUE]>>

StartsWith(path, prefix) ==
    /\ Len(prefix) <= Len(path)
    /\ SubSeq(path, 1, Len(prefix)) = prefix

(* os.path.basename: what follows the last "/"                             *)
RECURSIVE basename(_)
basename(path) ==
    IF path = << >>
    THEN << >>
    ELSE IF path[Len(path)] = "/"
         THEN << >>
         ELSE Append(basename(SubSeq(path, 1, Len(path) - 1)),
                     path[Len(path)])

RECURSIVE sum_durations(_)
sum_durations(entries) ==
    IF entries = << >>
    THEN 0
    ELSE Head(entries).duration + sum_durations(Tail(entries))

(* offset / duration * 100, kept as the fraction <<numerator, denominator>> *)
Percent(offset, duration) ==
    IF duration > 0 THEN <<offset * 100, duration>> ELSE <<0, 1>>

(* A filename is kept as the sequence of the pieces it is put together     *)
(* from                                                                    *)
Terminal(label) ==
    [found |-> TRUE, filename |-> label, position |-> 0, duration |-> 0,
     percent |-> <<0, 1>>]

Playing(entry, offset) ==
    [found    |-> TRUE,
     filename |-> basename(entry.path),
     position |-> offset,
     duration |-> entry.duration,
     percent  |-> Percent(offset, entry.duration)]

(* the walk with the boundary left to the entry that ends on it            *)
RECURSIVE station_walk_closed(_, _, _)
station_walk_closed(entries, position_in_cycle, accumulated) ==
    IF entries = << >>
    THEN NoneValue
    ELSE LET entry == Head(entries)
         IN  IF position_in_cycle <= accumulated + entry.duration
             THEN Playing(entry, position_in_cycle - accumulated)
             ELSE station_walk_closed(Tail(entries), position_in_cycle,
                                      accumulated + entry.duration)

(* The loop at lines 1088-1098                                             *)
RECURSIVE station_walk(_, _, _)
station_walk(entries, position_in_cycle, accumulated) ==
    IF entries = << >>
    THEN NoneValue
    ELSE LET entry == Head(entries)
         IN  IF position_in_cycle < accumulated + entry.duration
             THEN Playing(entry, position_in_cycle - accumulated)
             ELSE station_walk(Tail(entries), position_in_cycle,
                               accumulated + entry.duration)

(* the fallback walking from the epoch second itself, not its remainder    *)
full_station_epoch_nomod(entries, now) ==
    LET total_duration == sum_durations(entries)
    IN  IF total_duration = 0
        THEN NoneValue
        ELSE station_walk(entries, now, 0)

(* the fallback with a cycle one second longer than the playlist           *)
full_station_epoch_longcycle(entries, now) ==
    LET total_duration == sum_durations(entries)
    IN  IF total_duration = 0
        THEN NoneValue
        ELSE station_walk(entries, now % (total_duration + 1), 0)

(* Fallback: full-station epoch, lines 1080-1100                           *)
full_station_epoch(entries, now) ==
    LET total_duration == sum_durations(entries)
    IN  IF total_duration = 0
        THEN NoneValue
        ELSE station_walk(entries, now % total_duration, 0)

(* the show walk with the boundary left to the entry that ends on it       *)
RECURSIVE show_walk_closed(_, _, _)
show_walk_closed(show_entries, pos, acc) ==
    IF show_entries = << >>
    THEN NoneValue
    ELSE LET entry == Head(show_entries)
         IN  IF pos <= acc + entry.duration
             THEN Playing(entry, pos - acc)
             ELSE show_walk_closed(Tail(show_entries), pos,
                                   acc + entry.duration)

(* The loop at lines 1066-1076                                             *)
RECURSIVE show_walk(_, _, _)
show_walk(show_entries, pos, acc) ==
    IF show_entries = << >>
    THEN NoneValue
    ELSE LET entry == Head(show_entries)
         IN  IF pos < acc + entry.duration
             THEN Playing(entry, pos - acc)
             ELSE show_walk(Tail(show_entries), pos, acc + entry.duration)

(* the lookup answering with the show's title when no entry of the        *)
(* playlist starts with the show's path                                    *)
schedule_lookup_title(entries, channel_number, now) ==
    IF channel_number = ""
    THEN NoneValue
    ELSE LET result == resolve_now(load_config, load_state, channel_number, now)
         IN  IF ~result.found
             THEN NoneValue
             ELSE IF result.show_id \in {"SIGNOFF", "SIGNON"}
                  THEN Terminal(<<Get(result.show, "title", result.show_id)>>)
                  ELSE LET show_path    == Get(result.show, "path", << >>)
                           show_entries ==
                               SelectSeq(entries,
                                         LAMBDA e : StartsWith(e.path, show_path))
                           total        == sum_durations(show_entries)
                       IN  IF show_path # << >> /\ show_entries # << >>
                              /\ total > 0
                           THEN show_walk(show_entries, now.epoch % total, 0)
                           ELSE IF show_path # << >> /\ show_entries = << >>
                                THEN Terminal(<<Get(result.show, "title",
                                                    result.show_id)>>)
                                ELSE NoneValue

(* The schedule-aware lookup, lines 1043-1078: the value it returns, or    *)
(* NoneValue when it falls through to the fallback                         *)
schedule_lookup(entries, channel_number, now) ==
    IF channel_number = ""
    THEN NoneValue
    ELSE LET result == resolve_now(load_config, load_state, channel_number, now)
         IN  IF ~result.found
             THEN NoneValue
             ELSE IF result.show_id \in {"SIGNOFF", "SIGNON"}
                  THEN Terminal(<<Get(result.show, "title", result.show_id)>>)
                  ELSE LET show_path    == Get(result.show, "path", << >>)
                           show_entries ==
                               SelectSeq(entries,
                                         LAMBDA e : StartsWith(e.path, show_path))
                           total        == sum_durations(show_entries)
                       IN  IF show_path # << >> /\ show_entries # << >>
                              /\ total > 0
                           THEN show_walk(show_entries, now.epoch % total, 0)
                           ELSE NoneValue

(* calculate_epoch_position without the MTV and YouTube branches           *)
calculate_epoch_position_scheduled(station, channel_number, now) ==
    IF ~index_tsv.exists
    THEN NoneValue
    ELSE LET entries == index_tsv.entries
         IN  IF entries = << >>
             THEN NoneValue
             ELSE LET scheduled == schedule_lookup(entries, channel_number, now)
                  IN  IF scheduled.found
                      THEN scheduled
                      ELSE full_station_epoch(entries, now.epoch)

(* now is the reading of the clock: [day, time, epoch]                     *)
calculate_epoch_position(station, channel_number, now) ==
    IF StartsWithMTV(Upper(station))
    THEN Terminal(IF mtv_meta.exists /\ mtv_meta.artist # ""
                     /\ mtv_meta.title # ""
                  THEN <<mtv_meta.artist, " - ", mtv_meta.title>>
                  ELSE <<Upper(station)>>)
    ELSE IF Upper(station) \in DOMAIN get_youtube_channels
    THEN Terminal(<<Get(get_youtube_channels[Upper(station)], "name",
                        Upper(station)), " (LIVE)">>)
    ELSE IF ~index_tsv.exists
    THEN NoneValue
    ELSE LET entries == index_tsv.entries
         IN  IF entries = << >>
             THEN NoneValue
             ELSE LET scheduled == schedule_lookup(entries, channel_number, now)
                  IN  IF scheduled.found
                      THEN scheduled
                      ELSE full_station_epoch(entries, now.epoch)

(* all_status, lines 1154-1165: what is reported for a channel that is not *)
(* the tuned one                                                           *)
NoContent == Terminal(<<"No content">>)

now_playing(ch, now) ==
    LET status == calculate_epoch_position(Lower(ch.name), ch.number, now)
    IN  IF status.found THEN status ELSE NoContent

----------------------------------------------------------------------------
(* The configuration and the inputs of the calls                           *)

Block(s, e, id) == [start |-> s, end |-> e, show_id |-> id]

(* Content paths are sequences of characters: "/X/a" is PathXa             *)
PrefixX == <<"/", "X", "/">>
PrefixY == <<"/", "Y", "/">>
PathXa  == <<"/", "X", "/", "a">>
PathYb  == <<"/", "Y", "/", "b">>

ShowCatalog ==
    [id \in {"MORNING", "MORNING2", "NEWS", "SIGNOFF"} |->
        CASE id = "MORNING"  -> [id |-> id, title |-> "Morning", path |-> PrefixX]
          [] id = "MORNING2" -> [id |-> id, title |-> "Morning 2", path |-> PrefixY]
          [] id = "NEWS"     -> [id |-> id, title |-> "News", path |-> << >>]
          [] OTHER           -> [id |-> id, title |-> "Off Air", path |-> << >>]]

(* A well-formed weekly default: monday has both stations, the other days  *)
(* have no entry.                                                          *)
DefaultSchedule ==
    [day \in {"monday"} |->
        [station \in {"WEATHER", "NEWS"} |->
            IF station = "WEATHER"
            THEN <<Block("08:00", "09:00", "MORNING"),
                   Block("09:00", "", "SIGNOFF")>>
            ELSE <<Block("09:00", "00:00", "NEWS")>>]]

TheConfig == [default_schedule |-> DefaultSchedule, shows |-> ShowCatalog]

InDays     == {"monday", "tuesday"}
InStations == {"WEATHER", "NEWS"}
(* The (day, station) buckets the mutation calls are made on               *)
InBuckets  == {<<"monday", "WEATHER">>, <<"tuesday", "NEWS">>}
InStarts   == {"08:00", "09:00"}
InEnds     == {"10:00", "00:00"}
InShows    == {"MORNING", "MORNING2"}
InChannels == {"2", "3", "9"}
NoIndex    == [exists |-> FALSE]
InTimes    == {"00:00", "08:00", "08:30", "09:00", "10:00", "23:59"}

NoClock == [day |-> "", time |-> "", epoch |-> 0]

----------------------------------------------------------------------------
(* The mutation calls                                                      *)

Init ==
    /\ config = TheConfig
    /\ STATE_FILE = [exists |-> FALSE]
    /\ before = STATE_FILE
    /\ hist = << >>
    /\ index_tsv = NoIndex
    /\ clock = NoClock
    /\ res = NoneValue
    /\ tmp = NoFile
    /\ writers = NoWriters
    /\ SEEN_IDS = NoFile
    /\ PENDING_DIR = NoPending

Set(day, station, start, end, show_id) ==
    /\ Len(hist) < MaxOps
    /\ STATE_FILE' = save_state(set_block(day, station, start, end, show_id))
    /\ before' = STATE_FILE
    /\ hist' = Append(hist, [op |-> "set", day |-> day, station |-> station,
                             start |-> start, end |-> end,
                             show_id |-> show_id])
    /\ UNCHANGED <<config, index_tsv, clock, res, tmp, writers, SEEN_IDS,
                 PENDING_DIR>>

Remove(day, station, start) ==
    /\ Len(hist) < MaxOps
    /\ STATE_FILE' = IF remove_block_hits(day, station)
                     THEN save_state(remove_block(day, station, start))
                     ELSE STATE_FILE
    /\ before' = STATE_FILE
    /\ hist' = Append(hist, [op |-> "remove", day |-> day,
                             station |-> station, start |-> start])
    /\ UNCHANGED <<config, index_tsv, clock, res, tmp, writers, SEEN_IDS,
                 PENDING_DIR>>

Reset ==
    /\ Len(hist) < MaxOps
    /\ STATE_FILE' = save_state(reset_schedule)
    /\ before' = STATE_FILE
    /\ hist' = Append(hist, [op |-> "reset"])
    /\ UNCHANGED <<config, index_tsv, clock, res, tmp, writers, SEEN_IDS,
                 PENDING_DIR>>

SetStep ==
    \E bucket \in InBuckets, start \in InStarts, end \in InEnds,
       show_id \in InShows :
        Set(bucket[1], bucket[2], start, end, show_id)

RemoveStep ==
    \E bucket \in InBuckets, start \in InStarts :
        Remove(bucket[1], bucket[2], start)

Next == SetStep \/ RemoveStep \/ Reset

Spec == Init /\ [][Next]_vars

----------------------------------------------------------------------------
(* Resolution calls over hand-written default buckets and over an override *)
(* bucket the mutation calls can produce                                   *)

ResolveBlocks ==
    {Block(s, e, id) : s \in InStarts, e \in {"", "00:00", "09:00"},
                       id \in {"MORNING", "NEWS"}}

BlockLists == UNION {[1..n -> ResolveBlocks] : n \in 0..MaxBlocks}

(* Sorted by start with no start twice: what set_block leaves in a bucket  *)
SortedUnique(blocks) ==
    \A i, j \in 1..Len(blocks) :
        i < j => Minutes(blocks[i].start) < Minutes(blocks[j].start)

(* No start twice, in whatever order the blocks are written                *)
UniqueStarts(blocks) ==
    \A i, j \in 1..Len(blocks) : i # j => blocks[i].start # blocks[j].start

ConfigWith(blocks) ==
    [default_schedule |->
        [day \in {"monday"} |->
            [station \in {"WEATHER", "NEWS"} |->
                IF station = "WEATHER"
                THEN blocks
                ELSE <<Block("09:00", "00:00", "NEWS")>>]],
     shows |-> ShowCatalog]

(* tuesday is not in the default, so set calls on (tuesday, NEWS) leave    *)
(* exactly their own blocks in the override                                *)
OverrideWith(blocks) ==
    [exists |-> TRUE,
     data   |-> [schedule  |-> [day \in {"tuesday"} |->
                                   [station \in {"NEWS"} |-> blocks]],
                 overrides |-> EmptyDict]]

InitResolve ==
    /\ \E blocks \in BlockLists :
          /\ config = ConfigWith(blocks)
          /\ STATE_FILE \in
                {[exists |-> FALSE]} \cup
                (IF SortedUnique(blocks) THEN {OverrideWith(blocks)} ELSE {})
    /\ before = STATE_FILE
    /\ hist = << >>
    /\ index_tsv = NoIndex
    /\ clock = NoClock
    /\ res = NoneValue
    /\ tmp = NoFile
    /\ writers = NoWriters
    /\ SEEN_IDS = NoFile
    /\ PENDING_DIR = NoPending

(* what_is_on / tv-helper: load the config and the state, then resolve     *)
ResolveNow(channel_number, now) ==
    /\ clock' = now
    /\ res' = [call    |-> "resolve_now",
               channel |-> channel_number,
               out     |-> resolve_now(load_config, load_state,
                                       channel_number, now)]
    /\ UNCHANGED <<config, STATE_FILE, before, hist, index_tsv, tmp, writers, SEEN_IDS,
                 PENDING_DIR>>

ResolveStep ==
    \E channel_number \in InChannels, day \in InDays, time \in InTimes :
        ResolveNow(channel_number, [day |-> day, time |-> time])

NextResolve == ResolveStep

SpecResolve == InitResolve /\ [][NextResolve]_vars

----------------------------------------------------------------------------
(* What the claims say of a block and a time of day, in minutes            *)

EndEffMinutes(b) ==
    IF b.end = "" \/ b.end = "00:00" THEN 1440 ELSE Minutes(b.end)

Covers(b, t) == Minutes(b.start) <= Minutes(t) /\ Minutes(t) < EndEffMinutes(b)

(* The effective bucket of the station of a channel on a day               *)
EffectiveBucket(channel_number, day) ==
    Get(get_schedule(config, load_state)[day],
        channel_to_station(channel_number), << >>)

Resolved == "call" \in DOMAIN res /\ res.call = "resolve_now"

ResBucket == EffectiveBucket(res.channel, clock.day)

ResCovering == {i \in 1..Len(ResBucket) : Covers(ResBucket[i], clock.time)}

(* C1: resolve_now returns, among the blocks of the effective bucket that  *)
(* cover the time of day (start <= t < end_effective), one with the latest *)
(* start, and it returns none exactly when no block of the bucket covers   *)
(* the time.                                                               *)
C1_LatestStartCovering ==
    Resolved =>
        IF ResCovering = {}
        THEN res.out = NoneValue
        ELSE /\ res.out.found
             /\ \E i \in ResCovering : res.out.block = ResBucket[i]
             /\ \A j \in ResCovering :
                   Minutes(ResBucket[j].start) <= Minutes(res.out.block.start)

(* Two blocks cover 09:00 and the later start is the one returned          *)
C1_Witness ==
    /\ Resolved
    /\ Cardinality(ResCovering) = 2
    /\ \E i, j \in ResCovering :
          Minutes(ResBucket[i].start) < Minutes(ResBucket[j].start)
    /\ res.out.found
    /\ res.out.block.start = "09:00"

C1_WitnessNone ==
    /\ Resolved
    /\ ResBucket # << >>
    /\ ResCovering = {}
    /\ res.out = NoneValue

(* C2: on a bucket with unique starts resolve_now returns at most one      *)
(* block, and a block it returns is a block of the bucket whose half-open  *)
(* interval covers the time: start <= t < end_effective.                   *)
C2_ReturnedBlockCovers ==
    (Resolved /\ UniqueStarts(ResBucket) /\ res.out.found) =>
        /\ Covers(res.out.block, clock.time)
        /\ Cardinality({i \in 1..Len(ResBucket) :
                            /\ ResBucket[i] = res.out.block
                            /\ Covers(ResBucket[i], clock.time)}) = 1

C2_Witness ==
    /\ Resolved
    /\ UniqueStarts(ResBucket)
    /\ Len(ResBucket) = 2
    /\ res.out.found
    /\ clock.time = "08:30"

IsSentinel(end) == end = "" \/ end = "00:00"

(* C3: a block whose end is empty or "00:00" ends at the end of the day:   *)
(* it covers every time from its start to 23:59, so a bucket holding one   *)
(* answers with a block at each such time (Scenario B: 09:00-00:00 NEWS at *)
(* 23:59); a block returned with another end e is never returned at t = e, *)
(* and a bucket of one block with end e answers none at t = e.             *)
C3_EndOfDaySentinel ==
    Resolved =>
        /\ \A i \in 1..Len(ResBucket) :
              (/\ IsSentinel(ResBucket[i].end)
               /\ Minutes(ResBucket[i].start) <= Minutes(clock.time))
              => /\ res.out.found
                 /\ Minutes(ResBucket[i].start) <= Minutes(res.out.block.start)
                 /\ (Len(ResBucket) = 1 => res.out.block = ResBucket[i])
        /\ (res.out.found /\ ~IsSentinel(res.out.block.end))
              => clock.time # res.out.block.end
        /\ (/\ Len(ResBucket) = 1
            /\ ~IsSentinel(ResBucket[1].end)
            /\ clock.time = ResBucket[1].end)
              => res.out = NoneValue

(* Scenario B                                                              *)
C3_Witness ==
    /\ Resolved
    /\ ResBucket = <<Block("09:00", "00:00", "NEWS")>>
    /\ clock.time = "23:59"
    /\ res.out.found
    /\ res.out.show_id = "NEWS"

C3_WitnessEnd ==
    /\ Resolved
    /\ ResBucket = <<Block("08:00", "09:00", "MORNING")>>
    /\ clock.time = "09:00"
    /\ res.out = NoneValue

----------------------------------------------------------------------------
(* The mutation calls: set, remove, reset                                  *)

Last == hist[Len(hist)]

LastIs(op) == Len(hist) >= 1 /\ Last.op = op

BeforeSchedule ==
    IF before.exists THEN Get(before.data, "schedule", EmptyDict) ELSE EmptyDict

Effective(day, station) ==
    Get(get_schedule(config, load_state)[day], station, << >>)

ChannelOf(station) ==
    CHOOSE num \in DOMAIN get_channels : get_channels[num].station = station

ResolveAt(station, day, t) ==
    resolve_now(load_config, load_state, ChannelOf(station),
                [day |-> day, time |-> t])

SetBlock == Block(Last.start, Last.end, Last.show_id)

(* The times the block just set covers                                     *)
SetTimes == {t \in InTimes : Covers(SetBlock, t)}

(* Another block of the bucket that covers t and starts after the block    *)
(* just set                                                                *)
LaterIn(bucket, t) ==
    \E i \in 1..Len(bucket) :
        Covers(bucket[i], t) /\ Minutes(SetBlock.start) < Minutes(bucket[i].start)

LaterCovering(t) == LaterIn(Effective(Last.day, Last.station), t)

(* C7 as stated: set(day, station, s, e, showId) followed by               *)
(* resolve(station, day, t), s <= t < e_effective, returns a block whose   *)
(* show id is showId.                                                      *)
C7_SetThenResolveShow ==
    LastIs("set") =>
        \A t \in SetTimes :
            LET out == ResolveAt(Last.station, Last.day, t)
            IN  out.found /\ out.show_id = Last.show_id

(* C7 amended: set(day, station, s, e, showId) followed by                 *)
(* resolve(station, day, t), s <= t < e_effective, returns a block; it is  *)
(* the block just set, with show id showId, unless another block of the    *)
(* bucket with a later start also covers t, and then it is the covering    *)
(* block with the latest start.                                            *)
C7_SetThenResolveLatest ==
    LastIs("set") =>
        LET bucket == Effective(Last.day, Last.station)
        IN  \A t \in SetTimes :
                LET out   == ResolveAt(Last.station, Last.day, t)
                    later == LaterIn(bucket, t)
                IN  /\ out.found
                    /\ Covers(out.block, t)
                    /\ ~later => (out.block = SetBlock
                                  /\ out.show_id = Last.show_id)
                    /\ later =>
                          /\ Minutes(SetBlock.start) < Minutes(out.block.start)
                          /\ \A i \in 1..Len(bucket) :
                                Covers(bucket[i], t) =>
                                    Minutes(bucket[i].start)
                                        <= Minutes(out.block.start)

(* set 08:00-10:00 MORNING2 answers MORNING2 at 08:30, and at 09:00 the    *)
(* block that starts at 09:00                                              *)
C7_Witness ==
    /\ LastIs("set")
    /\ Last.start = "08:00" /\ Last.end = "10:00" /\ Last.show_id = "MORNING2"
    /\ ResolveAt(Last.station, Last.day, "08:30").show_id = "MORNING2"
    /\ LaterCovering("09:00")
    /\ ResolveAt(Last.station, Last.day, "09:00").block.start = "09:00"

(* C8: after every sequence of set, remove and reset calls on a default    *)
(* that is sorted with unique starts, the blocks of every (day, station)   *)
(* bucket of the effective schedule are in strictly increasing order of    *)
(* start.                                                                  *)
C8_BucketsStrictlySorted ==
    LET schedule == get_schedule(config, load_state)
    IN  \A day \in DaySet, station \in InStations :
            LET blocks == Get(schedule[day], station, << >>)
            IN  SortedUnique(blocks)

(* set 09:00 and then set 08:00 on an empty bucket: 08:00 comes first      *)
C8_Witness ==
    /\ Len(hist) >= 2
    /\ hist[1].op = "set" /\ hist[1].day = "tuesday" /\ hist[1].start = "09:00"
    /\ hist[2].op = "set" /\ hist[2].day = "tuesday" /\ hist[2].start = "08:00"
    /\ Len(Effective("tuesday", "NEWS")) = 2
    /\ Effective("tuesday", "NEWS")[1].start = "08:00"

Prev == hist[Len(hist) - 1]

SetTwice ==
    /\ Len(hist) >= 2
    /\ Last.op = "set" /\ Prev.op = "set"
    /\ Last.day = Prev.day /\ Last.station = Prev.station
    /\ Last.start = Prev.start

(* C9: after set(d, st, s, e1, A) followed by set(d, st, s, e2, B) the     *)
(* (d, st) bucket holds exactly one block with start s, and that block has *)
(* end e2 and show B.                                                      *)
C9_UpsertLastWriteWins ==
    SetTwice =>
        LET bucket == Effective(Last.day, Last.station)
            at     == {i \in 1..Len(bucket) : bucket[i].start = Last.start}
        IN  /\ Cardinality(at) = 1
            /\ \A i \in at : bucket[i] = SetBlock

(* Scenario C: MORNING, then MORNING2 with another end, at monday 08:00    *)
C9_Witness ==
    /\ SetTwice
    /\ Last.day = "monday" /\ Last.station = "WEATHER" /\ Last.start = "08:00"
    /\ Prev.show_id = "MORNING" /\ Last.show_id = "MORNING2"
    /\ Prev.end # Last.end
    /\ \E i \in 1..Len(Effective("monday", "WEATHER")) :
          Effective("monday", "WEATHER")[i].show_id = "MORNING2"

DefaultBucket(day, station) ==
    Get(Get(Get(config, "default_schedule", EmptyDict), day, EmptyDict),
        station, << >>)

InSeq(b, blocks) == \E i \in 1..Len(blocks) : blocks[i] = b

SetOnNewDay == LastIs("set") /\ Last.day \notin DOMAIN BeforeSchedule

(* C10: when set(day, station, start, ...) is applied to a day that has no *)
(* override bucket, every default block of that day, of every station, is  *)
(* in the effective schedule afterwards, except a block of the same        *)
(* station with the same start, which the new block replaces.              *)
C10_SeededFromDefault ==
    SetOnNewDay =>
        /\ \A station \in InStations :
              \A i \in 1..Len(DefaultBucket(Last.day, station)) :
                  LET b == DefaultBucket(Last.day, station)[i]
                  IN  IF station = Last.station /\ b.start = Last.start
                      THEN b # SetBlock
                              => ~InSeq(b, Effective(Last.day, station))
                      ELSE InSeq(b, Effective(Last.day, station))
        /\ InSeq(SetBlock, Effective(Last.day, Last.station))

(* The first set on monday replaces the default 08:00 block of WEATHER and *)
(* keeps the 09:00 block and the block of NEWS                             *)
C10_Witness ==
    /\ SetOnNewDay
    /\ Last.day = "monday" /\ Last.station = "WEATHER" /\ Last.start = "08:00"
    /\ Last.show_id = "MORNING2"
    /\ Effective("monday", "NEWS") = <<Block("09:00", "00:00", "NEWS")>>
    /\ InSeq(Block("09:00", "", "SIGNOFF"), Effective("monday", "WEATHER"))
    /\ ~InSeq(Block("08:00", "09:00", "MORNING"), Effective("monday", "WEATHER"))

----------------------------------------------------------------------------
(* The epoch position of a station over the playlists of its index.tsv     *)

Entry(path, duration) == [path |-> path, duration |-> duration]

PlaylistEntries == {Entry(p, d) : p \in {PathXa, PathYb}, d \in 0..MaxDur}

(* Scenario A: [(A, 600), (B, 300)]                                        *)
ScenarioA == <<Entry(PathXa, 600), Entry(PathYb, 300)>>

Playlists ==
    UNION {[1..n -> PlaylistEntries] : n \in 0..MaxEntries} \cup {ScenarioA}

InEpochs == (0..MaxEpoch) \cup {905, 1500}

(* monday 08:30 is in the MORNING block of WEATHER, monday 09:00 in its    *)
(* SIGNOFF block, and tuesday has no block                                 *)
InClocks ==
    {[day |-> d[1], time |-> d[2], epoch |-> n] :
        d \in {<<"monday", "08:30">>, <<"monday", "09:00">>,
               <<"tuesday", "08:30">>},
        n \in InEpochs}

InitEpoch ==
    /\ config = TheConfig
    /\ STATE_FILE = [exists |-> FALSE]
    /\ before = STATE_FILE
    /\ hist = << >>
    /\ index_tsv \in {NoIndex} \cup
                     {[exists |-> TRUE, entries |-> pl] : pl \in Playlists}
    /\ clock = NoClock
    /\ res = NoneValue
    /\ tmp = NoFile
    /\ writers = NoWriters
    /\ SEEN_IDS = NoFile
    /\ PENDING_DIR = NoPending

(* all_status, lines 1129-1156: the estimate for a channel that is not the *)
(* tuned one                                                               *)
CalcEpoch(ch, now) ==
    /\ clock' = now
    /\ res' = [call    |-> "calculate_epoch_position",
               channel |-> ch.number,
               station |-> Lower(ch.name),
               out     |-> calculate_epoch_position(Lower(ch.name), ch.number,
                                                    now)]
    /\ UNCHANGED <<config, STATE_FILE, before, hist, index_tsv, tmp, writers, SEEN_IDS,
                 PENDING_DIR>>

CalcStep == \E now \in InClocks : CalcEpoch(read_channels[1], now)

NextEpoch == CalcStep

SpecEpoch == InitEpoch /\ [][NextEpoch]_vars

Calculated == "call" \in DOMAIN res /\ res.call = "calculate_epoch_position"

(* What the claims say: the block on air, the playlist the Epoch Player is *)
(* given, and the entry and offset it is to return                         *)
OnAir ==
    LET bucket   == EffectiveBucket(res.channel, clock.day)
        covering == {i \in 1..Len(bucket) : Covers(bucket[i], clock.time)}
    IN  IF covering = {}
        THEN NoneValue
        ELSE [found |-> TRUE,
              block |-> bucket[CHOOSE i \in covering :
                                   \A j \in covering :
                                       Minutes(bucket[j].start)
                                           <= Minutes(bucket[i].start)]]

OffAir == OnAir.found /\ OnAir.block.show_id \in {"SIGNOFF", "SIGNON"}

RECURSIVE Total(_)
Total(playlist) ==
    IF playlist = << >> THEN 0
    ELSE playlist[1].duration + Total(Tail(playlist))

PrefixTotal(playlist, i) == Total(SubSeq(playlist, 1, i))

OnAirSubset ==
    IF OnAir.found /\ ~OffAir
    THEN SelectSeq(index_tsv.entries,
                   LAMBDA e : /\ ShowCatalog[OnAir.block.show_id].path # << >>
                              /\ StartsWith(e.path,
                                     ShowCatalog[OnAir.block.show_id].path))
    ELSE << >>

EpochPlaylist ==
    IF Total(OnAirSubset) > 0 THEN OnAirSubset ELSE index_tsv.entries

(* The Epoch Player is what answers: the index exists and no off-air block *)
(* is on                                                                   *)
EpochPlayed ==
    /\ Calculated
    /\ index_tsv.exists
    /\ ~(index_tsv.entries # << >> /\ OffAir)

(* C4: for a playlist of total duration T > 0 at epoch second n the Epoch  *)
(* Player returns the first entry i with (n mod T) < sum(durations[0..i]), *)
(* with offset (n mod T) - sum(durations[0..i-1]); a position on an entry  *)
(* boundary belongs to the next entry with offset 0 (Scenario A).          *)
C4_FirstEntryPastPosition ==
    (EpochPlayed /\ Total(EpochPlaylist) > 0) =>
        LET playlist == EpochPlaylist
            position == clock.epoch % Total(playlist)
            first    == CHOOSE i \in 1..Len(playlist) :
                            /\ position < PrefixTotal(playlist, i)
                            /\ \A j \in 1..(i - 1) :
                                  ~(position < PrefixTotal(playlist, j))
        IN  /\ res.out.found
            /\ res.out.filename = basename(playlist[first].path)
            /\ res.out.duration = playlist[first].duration
            /\ res.out.position = position - PrefixTotal(playlist, first - 1)
            /\ (position = PrefixTotal(playlist, first - 1)
                    => res.out.position = 0)

(* Scenario A at epoch 1500: B, offset 0                                   *)
C4_Witness ==
    /\ EpochPlayed
    /\ index_tsv.entries = ScenarioA
    /\ clock.day = "tuesday"
    /\ clock.epoch = 1500
    /\ res.out.found
    /\ res.out.filename = <<"b">>
    /\ res.out.position = 0
    /\ res.out.duration = 300

(* Scenario A at epoch 905: A, offset 5                                    *)
C4_WitnessA ==
    /\ EpochPlayed
    /\ index_tsv.entries = ScenarioA
    /\ clock.day = "tuesday"
    /\ clock.epoch = 905
    /\ res.out.filename = <<"a">>
    /\ res.out.position = 5

(* C5: the Epoch Player returns none when the playlist is empty or its     *)
(* total duration is 0, and for a playlist of non-negative durations with  *)
(* total > 0 it returns an entry at every instant.                         *)
C5_NoneIffNothingToPlay ==
    EpochPlayed =>
        /\ (index_tsv.entries = << >> \/ Total(index_tsv.entries) = 0)
              => res.out = NoneValue
        /\ Total(EpochPlaylist) > 0 => res.out.found

(* a playlist whose last entry is the only one that lasts, read late in    *)
(* its cycle, and a playlist of entries of duration 0                      *)
C5_Witness ==
    /\ EpochPlayed
    /\ Len(index_tsv.entries) = 2
    /\ index_tsv.entries[1].duration = 0
    /\ index_tsv.entries[2].duration = 2
    /\ clock.epoch = 5
    /\ res.out.found
    /\ res.out.position = 1

C5_WitnessNone ==
    /\ EpochPlayed
    /\ Len(index_tsv.entries) = 2
    /\ Total(index_tsv.entries) = 0
    /\ res.out = NoneValue

----------------------------------------------------------------------------
(* remove and reset                                                        *)

HasStart(blocks, start) ==
    \E i \in 1..Len(blocks) : Get(blocks[i], "start", "") = start

(* The override bucket of (day, station) in the state file before the last *)
(* call; empty when the file has no bucket there                           *)
BeforeBucket(day, station) ==
    Get(Get(BeforeSchedule, day, EmptyDict), station, << >>)

RemoveAbsent ==
    /\ LastIs("remove")
    /\ ~HasStart(BeforeBucket(Last.day, Last.station), Last.start)

(* C11: remove(day, station, start) on a (day, station) bucket that holds  *)
(* no block with that start is a no-op: the persisted state after the call *)
(* equals the persisted state before it (a missing file stays missing).    *)
C11_RemoveAbsentIsNoOp == RemoveAbsent => STATE_FILE = before

(* A remove of an absent start from a bucket that holds another block      *)
C11_Witness ==
    /\ RemoveAbsent
    /\ before.exists
    /\ Len(BeforeBucket(Last.day, Last.station)) >= 1
    /\ STATE_FILE = before

(* A remove while there is no state file at all                            *)
C11_WitnessNoFile ==
    /\ RemoveAbsent
    /\ ~before.exists
    /\ ~STATE_FILE.exists

(* C12 as stated: after remove(day, station, start) the effective block    *)
(* list of (day, station) holds no block with that start, whether or not   *)
(* the day had an override bucket before the call.                         *)
C12_RemovedStartGone ==
    LastIs("remove") =>
        ~HasStart(Effective(Last.day, Last.station), Last.start)

(* C12: after remove(day, station, start) on a day that had an override    *)
(* bucket, the effective block list of (day, station) holds no block with  *)
(* that start; on a day without an override bucket remove changes nothing, *)
(* so the effective list is still the default one.                         *)
C12_RemovedFromOverride ==
    LastIs("remove") =>
        IF Last.day \in DOMAIN BeforeSchedule
        THEN ~HasStart(Effective(Last.day, Last.station), Last.start)
        ELSE /\ STATE_FILE = before
             /\ Effective(Last.day, Last.station)
                    = DefaultBucket(Last.day, Last.station)

(* A remove that took a block out of an override bucket                    *)
C12_Witness ==
    /\ LastIs("remove")
    /\ HasStart(BeforeBucket(Last.day, Last.station), Last.start)
    /\ ~HasStart(Effective(Last.day, Last.station), Last.start)

(* A remove of a default block's start on a day without an override bucket *)
C12_WitnessDefault ==
    /\ LastIs("remove")
    /\ Last.day \notin DOMAIN BeforeSchedule
    /\ HasStart(Effective(Last.day, Last.station), Last.start)

(* A reset has been called and no set has been called since                *)
ResetSince ==
    \E k \in 1..Len(hist) :
        /\ hist[k].op = "reset"
        /\ \A j \in (k + 1)..Len(hist) : hist[j].op # "set"

DefaultDay(day) ==
    Get(Get(config, "default_schedule", EmptyDict), day, EmptyDict)

(* C13: after reset(), whatever set/remove calls came before it, the       *)
(* effective schedule of every day equals the default schedule of that day *)
(* for every station, and stays so until the next set.                     *)
C13_ResetRestoresDefaults ==
    ResetSince =>
        LET merged == get_schedule(load_config, load_state)
        IN  \A day \in DaySet : merged[day] = DefaultDay(day)

(* set, reset, then a remove of a default block's start: still the default *)
C13_Witness ==
    /\ Len(hist) = 3
    /\ hist[1].op = "set" /\ hist[1].day = "monday"
    /\ hist[2].op = "reset"
    /\ hist[3].op = "remove" /\ hist[3].day = "monday"
    /\ hist[3].start = "08:00"
    /\ Effective("monday", "WEATHER") = DefaultBucket("monday", "WEATHER")
    /\ Len(Effective("monday", "WEATHER")) = 2

----------------------------------------------------------------------------
(* The merge of the override layer with a default that is reconfigured     *)

(* A default with one station a day                                        *)
SoloSchedule ==
    [day \in {"monday", "tuesday"} |->
        IF day = "monday"
        THEN [station \in {"WEATHER"} |->
                 <<Block("08:00", "09:00", "MORNING")>>]
        ELSE [station \in {"NEWS"} |->
                 <<Block("09:00", "00:00", "NEWS")>>]]

SoloConfig == [default_schedule |-> SoloSchedule, shows |-> ShowCatalog]

InConfigs == {SoloConfig, TheConfig}

InitMerge ==
    /\ config = SoloConfig
    /\ STATE_FILE = [exists |-> FALSE]
    /\ before = STATE_FILE
    /\ hist = << >>
    /\ index_tsv = NoIndex
    /\ clock = NoClock
    /\ res = NoneValue
    /\ tmp = NoFile
    /\ writers = NoWriters
    /\ SEEN_IDS = NoFile
    /\ PENDING_DIR = NoPending

(* schedule_config.json is rewritten; load_config reads it anew each call  *)
Reconfigure ==
    /\ \E cfg \in InConfigs \ {config} : config' = cfg
    /\ UNCHANGED <<STATE_FILE, before, hist, index_tsv, clock, res, tmp, writers, SEEN_IDS,
                 PENDING_DIR>>

MergeSetStep ==
    \E bucket \in InBuckets, start \in InStarts :
        Set(bucket[1], bucket[2], start, "10:00", "MORNING2")

NextMerge == MergeSetStep \/ RemoveStep \/ Reset \/ Reconfigure

SpecMerge == InitMerge /\ [][NextMerge]_vars

OverrideLayer == Get(load_state, "schedule", EmptyDict)

(* A day bucket holds at least one block                                   *)
HasBlocks(bucket) == \E st \in DOMAIN bucket : bucket[st] # << >>

(* Two day buckets give every station the same block list                  *)
SameBlocks(a, b) ==
    \A st \in InStations \cup DOMAIN a \cup DOMAIN b :
        Get(a, st, << >>) = Get(b, st, << >>)

(* C14 as stated: effective(day) is the override bucket of the day if it   *)
(* is present and non-empty, and the default bucket of the day if the      *)
(* override bucket is absent or present but empty.                         *)
C14_OverrideIfNonEmpty ==
    LET merged == get_schedule(load_config, load_state)
    IN  \A day \in DaySet :
            SameBlocks(merged[day],
                       IF /\ day \in DOMAIN OverrideLayer
                          /\ HasBlocks(OverrideLayer[day])
                       THEN OverrideLayer[day]
                       ELSE DefaultDay(day))

(* C14: effective(day) is the override bucket of the day whenever the      *)
(* override layer has one, also when that bucket holds no block, and the   *)
(* default bucket of the day only when the override layer has none.        *)
C14_OverrideIfPresent ==
    LET merged == get_schedule(load_config, load_state)
    IN  \A day \in DaySet :
            merged[day] = IF day \in DOMAIN OverrideLayer
                          THEN OverrideLayer[day]
                          ELSE DefaultDay(day)

(* Every block of monday's override bucket has been removed, the default   *)
(* has one, and the effective list is the empty override list              *)
C14_Witness ==
    /\ "monday" \in DOMAIN OverrideLayer
    /\ ~HasBlocks(OverrideLayer["monday"])
    /\ DefaultBucket("monday", "WEATHER") # << >>
    /\ Effective("monday", "WEATHER") = << >>

(* A day with a bucket that holds blocks, and a day without a bucket       *)
C14_WitnessPresent ==
    /\ "monday" \in DOMAIN OverrideLayer
    /\ HasBlocks(OverrideLayer["monday"])
    /\ Effective("monday", "WEATHER") # DefaultBucket("monday", "WEATHER")
    /\ "tuesday" \notin DOMAIN OverrideLayer
    /\ Effective("tuesday", "NEWS") = DefaultBucket("tuesday", "NEWS")
    /\ DefaultBucket("tuesday", "NEWS") # << >>

(* C15: the override is whole-day: when the override layer has a bucket    *)
(* for a day, a station that bucket does not mention has an empty          *)
(* effective block list that day, even if the default has blocks for it,   *)
(* and resolve returns none for that station at every time of that day.    *)
C15_OverrideIsWholeDay ==
    \A day \in DaySet, station \in InStations :
        (/\ day \in DOMAIN OverrideLayer
         /\ station \notin DOMAIN OverrideLayer[day])
        => /\ Effective(day, station) = << >>
           /\ \A t \in InTimes : ResolveAt(station, day, t) = NoneValue

(* Monday has an override bucket with blocks that does not mention NEWS,   *)
(* the default has a NEWS block covering 10:00, and resolve returns none   *)
C15_Witness ==
    /\ "monday" \in DOMAIN OverrideLayer
    /\ HasBlocks(OverrideLayer["monday"])
    /\ "NEWS" \notin DOMAIN OverrideLayer["monday"]
    /\ \E i \in 1..Len(DefaultBucket("monday", "NEWS")) :
           Covers(DefaultBucket("monday", "NEWS")[i], "10:00")
    /\ Effective("monday", "NEWS") = << >>
    /\ ResolveAt("NEWS", "monday", "10:00") = NoneValue

----------------------------------------------------------------------------
(* What is reported for a channel: scheduled and ephemeral stations        *)

(* A default in which the ephemeral stations have blocks of their own      *)
NowSchedule ==
    [day \in {"monday"} |->
        [station \in {"WEATHER", "MTV", "CSPAN"} |->
            CASE station = "WEATHER" ->
                     <<Block("08:00", "09:00", "MORNING"),
                       Block("09:00", "", "SIGNOFF")>>
              [] station = "MTV" ->
                     <<Block("08:00", "09:00", "MORNING")>>
              [] station = "CSPAN" ->
                     <<Block("09:00", "", "SIGNOFF")>>]]

NowConfig == [default_schedule |-> NowSchedule, shows |-> ShowCatalog]

(* The state file after set(monday, WEATHER, 08:00, 10:00, MORNING2)       *)
NowOverride ==
    [schedule |->
        [day \in {"monday"} |->
            [station \in {"WEATHER", "MTV", "CSPAN"} |->
                IF station = "WEATHER"
                THEN <<Block("08:00", "10:00", "MORNING2"),
                       Block("09:00", "", "SIGNOFF")>>
                ELSE NowSchedule["monday"][station]]],
     overrides |-> EmptyDict]

(* WEATHER is scheduled, MTV and CSPAN are ephemeral                       *)
InStatusChannels == {read_channels[1], read_channels[3], read_channels[4]}

InitNow ==
    /\ config = NowConfig
    /\ STATE_FILE \in {[exists |-> FALSE], save_state(NowOverride)}
    /\ before = STATE_FILE
    /\ hist = << >>
    /\ index_tsv \in {NoIndex} \cup
                     {[exists |-> TRUE, entries |-> pl] : pl \in Playlists}
    /\ clock = NoClock
    /\ res = NoneValue
    /\ tmp = NoFile
    /\ writers = NoWriters
    /\ SEEN_IDS = NoFile
    /\ PENDING_DIR = NoPending

NowPlaying(ch, now) ==
    /\ clock' = now
    /\ res' = [call    |-> "all_status",
               channel |-> ch.number,
               station |-> Lower(ch.name),
               out     |-> now_playing(ch, now)]
    /\ UNCHANGED <<config, STATE_FILE, before, hist, index_tsv, tmp, writers, SEEN_IDS,
                 PENDING_DIR>>

(* The readings of the clock: a block with a content path, an off-air      *)
(* block and no block on air, early in the cycle and at 905 (Scenario A)   *)
InNowClocks == {now \in InClocks : now.epoch \in (0..MaxDur) \cup {905}}

NowStep ==
    \E ch \in InStatusChannels, now \in InNowClocks : NowPlaying(ch, now)

NextNow == NowStep

SpecNow == InitNow /\ [][NextNow]_vars

Answered == "call" \in DOMAIN res /\ res.call = "all_status"

Ephemeral == res.station \in {"mtv", "cspan"}

(* The playlist of the station; a missing index file is an empty playlist  *)
StationPlaylist == IF index_tsv.exists THEN index_tsv.entries ELSE << >>

(* The content prefix of the show on air, << >> when there is none         *)
OnAirPrefix ==
    IF OnAir.found /\ ~OffAir
    THEN Get(Get(get_shows(config), OnAir.block.show_id, EmptyDict),
             "path", << >>)
    ELSE << >>

PrefixSubset ==
    SelectSeq(StationPlaylist, LAMBDA e : StartsWith(e.path, OnAirPrefix))

(* The answer is an entry of the playlist, not a terminal descriptor       *)
IsEntry(out) == out.duration > 0

(* C16 as stated: while the block on air selects a show with content       *)
(* prefix P and the playlist has an entry under P, the answer is at every  *)
(* instant an entry under P, never one outside P, whatever the durations.  *)
C16_OnlyPrefixEntries ==
    (/\ Answered /\ ~Ephemeral
     /\ OnAirPrefix # << >>
     /\ PrefixSubset # << >>)
    => /\ IsEntry(res.out)
       /\ \E i \in 1..Len(PrefixSubset) :
              /\ res.out.filename = basename(PrefixSubset[i].path)
              /\ res.out.duration = PrefixSubset[i].duration

(* C17 as stated: for a scheduled station with an off-air block (SIGNOFF   *)
(* or SIGNON) on air the answer is the off-air terminal descriptor, offset *)
(* 0 and duration 0, whatever the playlist, empty or missing included.     *)
C17_OffAirWhateverPlaylist ==
    (Answered /\ ~Ephemeral /\ OffAir)
    => res.out = Terminal(<<get_shows(config)[OnAir.block.show_id].title>>)

(* The label the out-of-band source gives for an ephemeral station         *)
OutOfBand(station) ==
    IF station = "mtv"
    THEN <<mtv_meta.artist, " - ", mtv_meta.title>>
    ELSE <<get_youtube_channels["CSPAN"].name, " (LIVE)">>

(* C18: for an ephemeral station (MTV, or one of the YouTube live          *)
(* directory) the answer is a terminal descriptor with offset 0 and        *)
(* duration 0 whose label comes from the out-of-band source, whatever the  *)
(* default schedule, the override and the playlist are.                    *)
C18_EphemeralTerminal ==
    (Answered /\ Ephemeral)
    => /\ res.out.position = 0
       /\ res.out.duration = 0
       /\ res.out.filename = OutOfBand(res.station)

(* MTV asked while a MORNING block of its own is on air and the playlist   *)
(* has an entry of that show to play                                       *)
C18_Witness ==
    /\ Answered
    /\ res.station = "mtv"
    /\ OnAir.found /\ OnAir.block.show_id = "MORNING"
    /\ Total(PrefixSubset) > 0
    /\ res.out = Terminal(<<"Artist", " - ", "Title">>)

(* CSPAN asked while its SIGNOFF block is on air                           *)
C18_WitnessLive ==
    /\ Answered
    /\ res.station = "cspan"
    /\ OffAir
    /\ Total(StationPlaylist) > 0
    /\ res.out = Terminal(<<"C-SPAN", " (LIVE)">>)

(* What the Epoch Player returns over the entire playlist, as an answer    *)
WholePlaylistAnswer ==
    LET playlist == StationPlaylist
    IN  IF Total(playlist) = 0
        THEN NoContent
        ELSE LET position == clock.epoch % Total(playlist)
                 first    == CHOOSE i \in 1..Len(playlist) :
                                 /\ position < PrefixTotal(playlist, i)
                                 /\ \A j \in 1..(i - 1) :
                                       ~(position < PrefixTotal(playlist, j))
                 offset   == position - PrefixTotal(playlist, first - 1)
             IN  [found    |-> TRUE,
                  filename |-> basename(playlist[first].path),
                  position |-> offset,
                  duration |-> playlist[first].duration,
                  percent  |-> <<offset * 100, playlist[first].duration>>]

(* C19: when no block covers the instant, or no entry of the playlist is   *)
(* under the prefix of the show on air, the answer is what the Epoch       *)
(* Player returns over the entire playlist, and the "no content"           *)
(* descriptor when that is none.                                           *)
C19_FallbackWholePlaylist ==
    (/\ Answered /\ ~Ephemeral
     /\ \/ ~OnAir.found
        \/ OnAirPrefix # << >> /\ PrefixSubset = << >>)
    => res.out = WholePlaylistAnswer

(* Monday 08:30, MORNING on air, and the playlist has entries of another   *)
(* show only: one of them is the answer                                    *)
C19_Witness ==
    /\ Answered /\ ~Ephemeral
    /\ OnAirPrefix = PrefixX
    /\ PrefixSubset = << >>
    /\ Len(StationPlaylist) = 2
    /\ IsEntry(res.out)
    /\ res.out.filename = <<"b">>
    /\ res.out.position = 1

(* No block on tuesday: Scenario A at 905 is A, offset 5                   *)
C19_WitnessNoBlock ==
    /\ Answered /\ ~Ephemeral
    /\ ~OnAir.found
    /\ StationPlaylist = ScenarioA
    /\ clock.epoch = 905
    /\ res.out.filename = <<"a">>
    /\ res.out.position = 5

(* No block and nothing to play: "no content"                              *)
C19_WitnessNoContent ==
    /\ Answered /\ ~Ephemeral
    /\ ~OnAir.found
    /\ ~index_tsv.exists
    /\ res.out = NoContent

----------------------------------------------------------------------------
(* save_state and load_state step by step, with two processes inside       *)
(* mutation calls at once.  Here the content of a file is its text: the    *)
(* sequence of the pieces written to it.                                   *)

(* json.dump(state, f): the text of a state, in MaxChunks pieces           *)
json_dump(state) == [i \in 1..MaxChunks |-> [of |-> state, part |-> i]]

(* What a write past the end of a truncated file leaves before it          *)
Hole == [of |-> EmptyDict, part |-> 0]

(* json.load(f): the state whose text this is; any other text raises       *)
(* JSONDecodeError                                                         *)
json_load(text) ==
    IF /\ Len(text) = MaxChunks
       /\ \A i \in 1..MaxChunks : text[i].part = i /\ text[i].of = text[1].of
    THEN [ok |-> TRUE, value |-> text[1].of]
    ELSE [ok |-> FALSE]

InitialState == [schedule |-> EmptyDict, overrides |-> EmptyDict]

(* What json.load raises on                                                *)
Unparseable == [ok |-> FALSE]

(* A file with this text; data is the state the text parses to             *)
file_of(text) ==
    [exists |-> TRUE,
     text   |-> text,
     data   |-> IF json_load(text).ok
                THEN json_load(text).value
                ELSE Unparseable]

(* load_state on the text of the state file                                *)
load_state_text ==
    IF STATE_FILE.exists
    THEN json_load(STATE_FILE.text)
    ELSE [ok |-> TRUE, value |-> InitialState]

(* f.write of one piece at the file position of the writing process        *)
PutAt(text, i, chunk) ==
    [j \in 1..(IF Len(text) > i THEN Len(text) ELSE i) |->
        IF j = i THEN chunk
        ELSE IF j <= Len(text) THEN text[j] ELSE Hole]

(* The states the mutation calls hand to save_state: what reset_schedule   *)
(* and a set_block on the empty override layer have computed               *)
SavedReset == InitialState

SavedSet ==
    [schedule  |-> [day \in {"tuesday"} |->
                       [station \in {"NEWS"} |->
                           <<Block("08:00", "10:00", "MORNING")>>]],
     overrides |-> EmptyDict]

InSaved == {SavedReset, SavedSet}

InitPersist ==
    /\ config = TheConfig
    /\ STATE_FILE = NoFile
    /\ before = NoFile
    /\ hist = << >>
    /\ index_tsv = NoIndex
    /\ clock = NoClock
    /\ res = NoneValue
    /\ tmp = NoFile
    /\ writers = NoWriters
    /\ SEEN_IDS = NoFile
    /\ PENDING_DIR = NoPending

(* A mutation call of process w: load_state, which raises on a text that   *)
(* does not parse, then the new state is computed and save_state entered   *)
Call(w, state) ==
    /\ writers[w].pc = "idle"
    /\ Len(hist) < MaxOps
    /\ LET loaded == load_state_text
       IN  /\ hist' = Append(hist, [op |-> "save", writer |-> w,
                                    state |-> state, loaded |-> loaded.ok])
           /\ writers' = [writers EXCEPT
                             ![w] = IF loaded.ok
                                    THEN [Idle EXCEPT !.pc = "open",
                                                      !.state = state]
                                    ELSE Idle]
    /\ UNCHANGED <<config, STATE_FILE, before, index_tsv, clock, res, tmp, SEEN_IDS,
                 PENDING_DIR>>

(* open(tmp, "w"): the file at the path is created, or truncated if there  *)
(* is one, whoever else has it open                                        *)
Open(w) ==
    /\ writers[w].pc = "open"
    /\ tmp' = file_of(<< >>)
    /\ writers' = [writers EXCEPT ![w].pc = "write", ![w].fd = "tmp",
                                  ![w].next = 1]
    /\ UNCHANGED <<config, STATE_FILE, before, hist, index_tsv, clock, res, SEEN_IDS,
                 PENDING_DIR>>

(* One write of json.dump; the last one is followed by the close that ends *)
(* the with block.  The open file is at the path tmp, at the path          *)
(* STATE_FILE (renamed by the other process) or at no path any more.       *)
Write(w) ==
    LET me    == writers[w]
        chunk == json_dump(me.state)[me.next]
    IN  /\ me.pc = "write"
        /\ tmp' = IF me.fd = "tmp"
                  THEN file_of(PutAt(tmp.text, me.next, chunk))
                  ELSE tmp
        /\ STATE_FILE' = IF me.fd = "state"
                         THEN file_of(PutAt(STATE_FILE.text, me.next,
                                            chunk))
                         ELSE STATE_FILE
        /\ writers' = [writers EXCEPT
                          ![w] = IF me.next = MaxChunks
                                 THEN [me EXCEPT !.pc = "replace",
                                                 !.fd = "none"]
                                 ELSE [me EXCEPT !.next = @ + 1]]
        /\ UNCHANGED <<config, before, hist, index_tsv, clock, res, SEEN_IDS,
                 PENDING_DIR>>

(* os.replace(tmp, STATE_FILE): atomic; FileNotFoundError when the other   *)
(* process has renamed the file away                                       *)
Replace(w) ==
    /\ writers[w].pc = "replace"
    /\ IF tmp.exists
       THEN /\ STATE_FILE' = tmp
            /\ tmp' = NoFile
            /\ writers' = [v \in Writers |->
                              IF v = w
                              THEN Idle
                              ELSE [writers[v] EXCEPT
                                       !.fd = CASE @ = "tmp"   -> "state"
                                                [] @ = "state" -> "orphan"
                                                [] OTHER       -> @]]
       ELSE /\ writers' = [writers EXCEPT ![w] = Idle]
            /\ UNCHANGED <<STATE_FILE, tmp>>
    /\ UNCHANGED <<config, before, hist, index_tsv, clock, res, SEEN_IDS,
                 PENDING_DIR>>

(* A reader: load_state in tv-helper, the web panel or the EPG generator   *)
Read ==
    /\ res' = [call |-> "load_state", out |-> load_state_text]
    /\ UNCHANGED <<config, STATE_FILE, before, hist, index_tsv, clock, tmp,
                   writers, SEEN_IDS,
                 PENDING_DIR>>

CallStep == \E w \in Writers, state \in InSaved : Call(w, state)

OpenStep == \E w \in Writers : Open(w)

WriteStep == \E w \in Writers : Write(w)

ReplaceStep == \E w \in Writers : Replace(w)

NextPersist == CallStep \/ OpenStep \/ WriteStep \/ ReplaceStep \/ Read

SpecPersist == InitPersist /\ [][NextPersist]_vars

Observed == "call" \in DOMAIN res /\ res.call = "load_state"

(* The states handed to save_state so far                                  *)
SavedSoFar == {hist[i].state : i \in {j \in 1..Len(hist) : hist[j].loaded}}

(* C20 as stated: in every interleaving of mutation calls, each writing    *)
(* the temporary file and then renaming it over the state file, with       *)
(* readers, two mutation calls in flight at once included, what a reader   *)
(* reads is the complete state written by some mutation or the initial     *)
(* state, never a partially written file.                                  *)
C20_ReaderSeesCompleteState ==
    Observed =>
        /\ res.out.ok
        /\ res.out.value \in SavedSoFar \cup {InitialState}

----------------------------------------------------------------------------
(* Two processes, one mutation call each: load_state, the change, and      *)
(* save_state step by step                                                 *)

(* What a mutation call makes of the state it loaded                       *)
apply_call(call, state) ==
    CASE call.op = "set" ->
             set_block_on(state, call.day, call.station, call.start,
                          call.end, call.show_id)
      [] call.op = "remove" ->
             IF remove_block_hits_on(state, call.day, call.station)
             THEN remove_block_on(state, call.day, call.station, call.start)
             ELSE state
      [] call.op = "reset" -> reset_schedule_on(state)

(* remove_block returns without save_state when the day or the station is  *)
(* not in the state                                                        *)
call_saves(call, state) ==
    call.op = "remove" => remove_block_hits_on(state, call.day, call.station)

InRaceCalls ==
    {[op |-> "set", day |-> "monday", station |-> "WEATHER",
      start |-> "08:00", end |-> "10:00", show_id |-> "MORNING2"],
     [op |-> "set", day |-> "tuesday", station |-> "NEWS",
      start |-> "09:00", end |-> "00:00", show_id |-> "MORNING"],
     [op |-> "remove", day |-> "monday", station |-> "WEATHER",
      start |-> "09:00", end |-> "", show_id |-> ""],
     [op |-> "reset", day |-> "", station |-> "", start |-> "",
      end |-> "", show_id |-> ""]}

(* The state file after set(monday, NEWS, 08:00, 09:00, MORNING)           *)
RaceState ==
    [schedule |->
        [day \in {"monday"} |->
            [station \in {"WEATHER", "NEWS"} |->
                IF station = "NEWS"
                THEN <<Block("08:00", "09:00", "MORNING"),
                       Block("09:00", "00:00", "NEWS")>>
                ELSE DefaultSchedule["monday"][station]]],
     overrides |-> EmptyDict]

InitRace ==
    /\ config = TheConfig
    /\ STATE_FILE \in {NoFile, file_of(json_dump(RaceState))}
    /\ before = STATE_FILE
    /\ hist = << >>
    /\ index_tsv = NoIndex
    /\ clock = NoClock
    /\ res = NoneValue
    /\ tmp = NoFile
    /\ writers = NoWriters
    /\ SEEN_IDS = NoFile
    /\ PENDING_DIR = NoPending

Called(w) == \E i \in 1..Len(hist) : hist[i].writer = w

(* the call computing its change from the empty state, not the loaded one  *)
loaded_state_stale(file) == InitialState

(* load_state, lines 43-47, on the file as it is now                       *)
loaded_state(file) == IF file.exists THEN file.data ELSE InitialState

(* The mutation call of process w up to save_state: load_state, which      *)
(* raises on a text that does not parse, and the change.  alone records    *)
(* that no other call was in flight.                                       *)
Mutate(w, call) ==
    /\ writers[w].pc = "idle"
    /\ ~Called(w)
    /\ LET ok     == load_state_text.ok
           state  == loaded_state(STATE_FILE)
           saves  == ok /\ call_saves(call, state)
       IN  /\ hist' = Append(hist,
                        [op |-> call.op, call |-> call, writer |-> w,
                         loaded |-> ok,
                         alone |-> \A v \in Writers : writers[v].pc = "idle"])
           /\ writers' = [writers EXCEPT
                             ![w] = IF saves
                                    THEN [Idle EXCEPT
                                             !.pc = "open",
                                             !.state = apply_call(call, state)]
                                    ELSE Idle]
    /\ UNCHANGED <<config, STATE_FILE, before, index_tsv, clock, res, tmp, SEEN_IDS,
                 PENDING_DIR>>

MutateStep == \E w \in Writers, call \in InRaceCalls : Mutate(w, call)

NextRace == MutateStep \/ OpenStep \/ WriteStep \/ ReplaceStep

SpecRace == InitRace /\ [][NextRace]_vars

(* Both calls have been made and have returned or raised                   *)
BothComplete ==
    /\ Len(hist) = 2
    /\ \A w \in Writers : writers[w].pc = "idle"

(* The state the behaviour began with, and the state now persisted         *)
RaceBegin == IF before.exists THEN before.data ELSE InitialState

RaceEnd == IF STATE_FILE.exists THEN STATE_FILE.data ELSE InitialState

SerialResult(first, second) ==
    apply_call(second, apply_call(first, RaceBegin))

(* C21 as stated: when two set/remove/reset calls run concurrently, the    *)
(* persisted state after both complete is the result of applying the two   *)
(* calls in some serial order, so no completed edit is lost.               *)
C21_SomeSerialOrder ==
    BothComplete =>
        \/ RaceEnd = SerialResult(hist[1].call, hist[2].call)
        \/ RaceEnd = SerialResult(hist[2].call, hist[1].call)

(* C21: mutation calls are not serialized.  When the second call begins    *)
(* after the first has returned, the persisted state after both is the     *)
(* result of applying the first and then the second; calls that overlap    *)
(* carry no such guarantee.                                                *)
C21_SerialWhenNotOverlapping ==
    (BothComplete /\ hist[1].alone /\ hist[2].alone)
    => RaceEnd = SerialResult(hist[1].call, hist[2].call)

(* Two sets on different days, one after the other: both blocks persist    *)
C21_Witness ==
    /\ BothComplete /\ hist[1].alone /\ hist[2].alone
    /\ hist[1].call.op = "set" /\ hist[1].call.day = "monday"
    /\ hist[2].call.op = "set" /\ hist[2].call.day = "tuesday"
    /\ ~before.exists
    /\ DOMAIN RaceEnd.schedule = {"monday", "tuesday"}

(* The same two sets overlapping: the monday edit is lost                  *)
C21_WitnessLost ==
    /\ BothComplete /\ ~hist[2].alone
    /\ hist[1].call.op = "set" /\ hist[1].call.day = "monday"
    /\ hist[2].call.op = "set" /\ hist[2].call.day = "tuesday"
    /\ ~before.exists
    /\ STATE_FILE.exists
    /\ DOMAIN RaceEnd.schedule = {"tuesday"}

----------------------------------------------------------------------------
(* load_state on a state file that is missing or does not parse            *)

(* A state file cut short: the first piece of a text and no more           *)
TruncatedFile == file_of(<<json_dump(RaceState)[1]>>)

InitLoad ==
    /\ config = TheConfig
    /\ STATE_FILE \in {NoFile, TruncatedFile, file_of(json_dump(RaceState))}
    /\ before = STATE_FILE
    /\ hist = << >>
    /\ index_tsv = NoIndex
    /\ clock = NoClock
    /\ res = NoneValue
    /\ tmp = NoFile
    /\ writers = NoWriters
    /\ SEEN_IDS = NoFile
    /\ PENDING_DIR = NoPending

NextLoad == MutateStep \/ OpenStep \/ WriteStep \/ ReplaceStep \/ Read

SpecLoad == InitLoad /\ [][NextLoad]_vars

(* C22 as stated: loading the override state when the state file is        *)
(* missing or does not parse yields the empty override layer and is not an *)
(* error, and a set/remove/reset that follows proceeds normally: no load,  *)
(* by a reader or by a mutation call, has raised, and a load of the        *)
(* missing or unparseable file the behaviour began with gave the empty     *)
(* layer.                                                                  *)
C22_LoadDefaultsToEmpty ==
    /\ Observed => res.out.ok
    /\ (Observed /\ hist = << >> /\ before # file_of(json_dump(RaceState)))
           => res.out.value = InitialState
    /\ \A i \in 1..Len(hist) : hist[i].loaded

----------------------------------------------------------------------------
(* Expected absence: unknown channels, empty buckets, uncovered times and  *)
(* playlists with nothing to play                                          *)

(* Playlists of total duration 0, and one that plays                       *)
SilentPlaylists == {pl \in Playlists : Total(pl) = 0} \cup {ScenarioA}

InitAbsent ==
    /\ config = NowConfig
    /\ STATE_FILE \in {[exists |-> FALSE], save_state(NowOverride)}
    /\ before = STATE_FILE
    /\ hist = << >>
    /\ index_tsv \in {NoIndex} \cup
                     {[exists |-> TRUE, entries |-> pl] : pl \in SilentPlaylists}
    /\ clock = NoClock
    /\ res = NoneValue
    /\ tmp = NoFile
    /\ writers = NoWriters
    /\ SEEN_IDS = NoFile
    /\ PENDING_DIR = NoPending

NextAbsent == ResolveStep \/ NowStep

SpecAbsent == InitAbsent /\ [][NextAbsent]_vars

(* The channel numbers of channels.tsv                                     *)
KnownChannels == {"2", "3", "4", "5"}

(* C23: resolution does not raise for expected absence.  For an unknown    *)
(* channel number, a station with no blocks on the day and a time no block *)
(* covers resolve_now returns none; for an empty, missing or zero-duration *)
(* playlist the answer reported is the "no content" descriptor, or the     *)
(* off-air descriptor when an off-air block is on air.                     *)
C23_AbsenceIsNoResult ==
    /\ (Resolved /\ (res.channel \notin KnownChannels \/ ResCovering = {}))
           => res.out = NoneValue
    /\ (Answered /\ ~Ephemeral /\ Total(StationPlaylist) = 0)
           => \/ res.out = NoContent
              \/ /\ OffAir
                 /\ res.out = Terminal(
                        <<get_shows(config)[OnAir.block.show_id].title>>)

(* Channel 9 is not in channels.tsv: none, at a time WEATHER has a block   *)
C23_Witness ==
    /\ Resolved
    /\ res.channel = "9"
    /\ clock.day = "monday" /\ clock.time = "08:30"
    /\ res.out = NoneValue

(* A station with blocks on monday and none on tuesday                     *)
C23_WitnessNoBlocks ==
    /\ Resolved
    /\ res.channel = "2"
    /\ clock.day = "tuesday"
    /\ ResBucket = << >>
    /\ res.out = NoneValue

(* A time before the first block of the day                                *)
C23_WitnessUncovered ==
    /\ Resolved
    /\ res.channel = "2"
    /\ ResBucket # << >>
    /\ clock.time = "00:00"
    /\ res.out = NoneValue

(* A playlist of two entries of duration 0                                 *)
C23_WitnessSilent ==
    /\ Answered /\ ~Ephemeral
    /\ Len(StationPlaylist) = 2
    /\ Total(StationPlaylist) = 0
    /\ ~OnAir.found
    /\ res.out = NoContent

----------------------------------------------------------------------------
(* Mutations whose end time is any string the caller passes: set_block and  *)
(* api_set store start and end as given (schedule_manager.py:175-194,       *)
(* schedule_web.py:788-795), and the command line hands over argv unchanged *)
(* (schedule_manager.py:241-246).                                           *)

InSpanEnds == {"08:00", "10:00", "00:00", ""}

SpanSetStep ==
    \E bucket \in InBuckets, start \in InStarts, end \in InSpanEnds,
       show_id \in InShows :
        Set(bucket[1], bucket[2], start, end, show_id)

NextSpan == SpanSetStep \/ RemoveStep \/ Reset

SpecSpan == Init /\ [][NextSpan]_vars

(* C24: after every sequence of set / remove / reset calls from a           *)
(* well-formed default, every Block of the override store has its start     *)
(* before its effective end (24:00 for an empty or "00:00" end), so no      *)
(* stored Block spans midnight.                                             *)
C24_NoStoredBlockSpansMidnight ==
    \A day \in DOMAIN OverrideLayer :
        \A station \in DOMAIN OverrideLayer[day] :
            \A i \in 1..Len(OverrideLayer[day][station]) :
                LET b == OverrideLayer[day][station][i]
                IN  Minutes(b.start) < EndEffMinutes(b)

----------------------------------------------------------------------------
(* The Epoch Player over time                                              *)

(* C25: whenever the Epoch Player returns an entry, of a playlist of        *)
(* non-negative durations, the offset it returns is at least 0 and less     *)
(* than the duration of the entry; an entry of duration 0 is never          *)
(* returned.                                                                *)
C25_OffsetWithinEntry ==
    (EpochPlayed /\ res.out.found) =>
        /\ 0 <= res.out.position
        /\ res.out.position < res.out.duration
        /\ res.out.duration > 0

(* the second of two entries of the show on air is returned at its first   *)
(* second, the first one lasting no time at all                            *)
C25_Witness ==
    /\ EpochPlayed
    /\ clock.day = "monday" /\ clock.time = "08:30"
    /\ clock.epoch = 2
    /\ index_tsv.entries = <<Entry(PathXa, 0), Entry(PathXa, 2)>>
    /\ res.out.found
    /\ res.out.position = 0
    /\ res.out.duration = 2

(* the last second of an entry of the whole playlist                        *)
C25_WitnessLastSecond ==
    /\ EpochPlayed
    /\ clock.day = "tuesday"
    /\ clock.epoch = 5
    /\ index_tsv.entries = <<Entry(PathXa, 2), Entry(PathYb, 2)>>
    /\ res.out.found
    /\ res.out.position = 1
    /\ res.out.filename = <<"a">>

(* What the Epoch Player returns at epoch second n, everything else as in  *)
(* the call the state records                                              *)
PlayerAt(n) ==
    calculate_epoch_position(res.station, res.channel,
                             [clock EXCEPT !.epoch = n])

(* The entry of the playlist that second n falls into                      *)
EntryAt(playlist, n) ==
    CHOOSE i \in 1..Len(playlist) :
        /\ n % Total(playlist) < PrefixTotal(playlist, i)
        /\ \A j \in 1..(i - 1) :
              ~(n % Total(playlist) < PrefixTotal(playlist, j))

(* The next entry of positive duration after entry i, in cyclic order      *)
NextPositive(playlist, i) ==
    LET at(k) == ((i - 1 + k) % Len(playlist)) + 1
        step  == CHOOSE k \in 1..Len(playlist) :
                     /\ playlist[at(k)].duration > 0
                     /\ \A m \in 1..(k - 1) : playlist[at(m)].duration = 0
    IN  at(step)

(* C26: for a fixed playlist of total duration T > 0, from epoch second n   *)
(* to n + 1 the Epoch Player keeps the entry with the offset one higher,    *)
(* or, when offset + 1 is the duration of the entry, moves to the next      *)
(* entry of positive duration in cyclic order with offset 0; the result at  *)
(* n + T is the result at n, and every entry of positive duration is the    *)
(* result at some second of the cycle.                                      *)
C26_AdvancesThroughCycle ==
    (EpochPlayed /\ Total(EpochPlaylist) > 0) =>
        LET playlist == EpochPlaylist
            T        == Total(playlist)
            n        == clock.epoch
            i        == EntryAt(playlist, n)
            offset   == (n % T) - PrefixTotal(playlist, i - 1)
        IN  /\ res.out = Playing(playlist[i], offset)
            /\ IF offset + 1 < playlist[i].duration
               THEN PlayerAt(n + 1) = Playing(playlist[i], offset + 1)
               ELSE PlayerAt(n + 1)
                        = Playing(playlist[NextPositive(playlist, i)], 0)
            /\ PlayerAt(n + T) = res.out
            /\ \A j \in 1..Len(playlist) :
                  playlist[j].duration > 0 =>
                      \E k \in 0..(T - 1) :
                          LET out == PlayerAt((n - (n % T)) + k)
                          IN  /\ out.found
                              /\ out.filename = basename(playlist[j].path)
                              /\ out.duration = playlist[j].duration

(* the last second of the only entry that lasts: the next second is its    *)
(* first one again, the entry of duration 0 being passed over              *)
C26_Witness ==
    /\ EpochPlayed
    /\ clock.day = "tuesday"
    /\ clock.epoch = 1
    /\ index_tsv.entries = <<Entry(PathYb, 0), Entry(PathXa, 2)>>
    /\ res.out = Playing(Entry(PathXa, 2), 1)
    /\ PlayerAt(2) = Playing(Entry(PathXa, 2), 0)

(* the last second of an entry followed by another one                     *)
C26_WitnessNextEntry ==
    /\ EpochPlayed
    /\ clock.day = "tuesday"
    /\ clock.epoch = 0
    /\ index_tsv.entries = <<Entry(PathXa, 1), Entry(PathYb, 2)>>
    /\ res.out = Playing(Entry(PathXa, 1), 0)
    /\ PlayerAt(1) = Playing(Entry(PathYb, 2), 0)

(* a second inside an entry of Scenario A, a cycle later                   *)
C26_WitnessSameEntry ==
    /\ EpochPlayed
    /\ clock.day = "tuesday"
    /\ clock.epoch = 905
    /\ index_tsv.entries = ScenarioA
    /\ res.out = Playing(Entry(PathXa, 600), 5)
    /\ PlayerAt(906) = Playing(Entry(PathXa, 600), 6)
    /\ PlayerAt(1805) = res.out

----------------------------------------------------------------------------
(* Mutation calls that keep, in the history, the state each call loaded    *)

InRoundStarts == {"09:00", "10:00"}

InRoundCalls ==
    {[op |-> "set", day |-> bucket[1], station |-> bucket[2],
      start |-> start, end |-> "00:00", show_id |-> show_id] :
        bucket \in InBuckets, start \in InRoundStarts, show_id \in InShows}
    \cup
    {[op |-> "remove", day |-> bucket[1], station |-> bucket[2],
      start |-> start, end |-> "", show_id |-> ""] :
        bucket \in InBuckets, start \in InRoundStarts}
    \cup
    {[op |-> "reset", day |-> "", station |-> "", start |-> "", end |-> "",
      show_id |-> ""]}

RoundCall(call) ==
    /\ Len(hist) < MaxOps
    /\ STATE_FILE' = IF call_saves(call, load_state)
                     THEN save_state(apply_call(call, load_state))
                     ELSE STATE_FILE
    /\ before' = STATE_FILE
    /\ hist' = Append(hist, [op |-> call.op, call |-> call,
                             loaded |-> load_state])
    /\ UNCHANGED <<config, index_tsv, clock, res, tmp, writers, SEEN_IDS,
                 PENDING_DIR>>

RoundSetStep    == \E call \in InRoundCalls : call.op = "set" /\ RoundCall(call)
RoundRemoveStep == \E call \in InRoundCalls : call.op = "remove" /\ RoundCall(call)
RoundResetStep  == \E call \in InRoundCalls : call.op = "reset" /\ RoundCall(call)

NextRound == RoundSetStep \/ RoundRemoveStep \/ RoundResetStep

SpecRound == Init /\ [][NextRound]_vars

Stations == {get_channels[num].station : num \in DOMAIN get_channels}

(* The effective block list of (day, station) under a state                *)
EffectiveOf(state, day, station) ==
    Get(get_schedule(config, state)[day], station, << >>)

(* The last two calls are set(d, st, s, ...) and remove(d, st, s)          *)
RoundTrip ==
    /\ Len(hist) >= 2
    /\ Prev.op = "set" /\ Last.op = "remove"
    /\ Last.call.day = Prev.call.day
    /\ Last.call.station = Prev.call.station
    /\ Last.call.start = Prev.call.start

(* The effective (d, st) bucket had a block with start s before the set    *)
RoundTripOverExisting ==
    HasStart(EffectiveOf(Prev.loaded, Last.call.day, Last.call.station),
             Last.call.start)

(* C27: when the effective (day, station) bucket has no block with start    *)
(* s, set(day, station, s, e, show) followed by remove(day, station, s)     *)
(* leaves the effective block list of every day and every station as it     *)
(* was before the two calls; when a block with start s did exist, it is     *)
(* not restored.                                                            *)
C27_SetRemoveRoundTrip ==
    RoundTrip =>
        IF RoundTripOverExisting
        THEN ~HasStart(EffectiveOf(load_state, Last.call.day,
                                   Last.call.station), Last.call.start)
        ELSE \A day \in DaySet, station \in Stations :
                 EffectiveOf(load_state, day, station)
                     = EffectiveOf(Prev.loaded, day, station)

(* a block set at 10:00 on monday's WEATHER, which has default blocks at   *)
(* 08:00 and 09:00 and no override yet, and removed again                  *)
C27_Witness ==
    /\ RoundTrip
    /\ ~RoundTripOverExisting
    /\ Last.call.day = "monday"
    /\ Prev.loaded = InitialState
    /\ "monday" \in DOMAIN load_state.schedule
    /\ Len(EffectiveOf(load_state, "monday", "WEATHER")) = 2

(* the default 09:00 block of monday's WEATHER replaced and then removed   *)
C27_WitnessNotRestored ==
    /\ RoundTrip
    /\ RoundTripOverExisting
    /\ Last.call.day = "monday"
    /\ Prev.loaded = InitialState
    /\ Len(EffectiveOf(load_state, "monday", "WEATHER")) = 1

----------------------------------------------------------------------------
(* What a mutation leaves alone                                            *)

BeforeState == IF before.exists THEN before.data ELSE InitialState

SetOrRemove == LastIs("set") \/ LastIs("remove")

(* C28: set(day, station, ...) and remove(day, station, ...) leave the      *)
(* override bucket and the effective schedule of every other day as they   *)
(* were, and leave the effective block list of every other station of the   *)
(* same day as it was; no mutation changes the default schedule.            *)
C28_OtherBucketsUnchanged ==
    /\ SetOrRemove =>
          /\ \A day \in DaySet \ {Last.day} :
                /\ (day \in DOMAIN OverrideLayer) = (day \in DOMAIN BeforeSchedule)
                /\ day \in DOMAIN OverrideLayer
                      => OverrideLayer[day] = BeforeSchedule[day]
                /\ get_schedule(config, load_state)[day]
                       = get_schedule(config, BeforeState)[day]
          /\ \A station \in Stations \ {Last.station} :
                EffectiveOf(load_state, Last.day, station)
                    = EffectiveOf(BeforeState, Last.day, station)
    /\ load_config.default_schedule = DefaultSchedule

(* a set on monday's WEATHER while tuesday has an override, monday has     *)
(* none and monday's NEWS has a default block                              *)
C28_Witness ==
    /\ LastIs("set")
    /\ Last.day = "monday"
    /\ "monday" \notin DOMAIN BeforeSchedule
    /\ "tuesday" \in DOMAIN BeforeSchedule
    /\ BeforeSchedule["tuesday"]["NEWS"] # << >>
    /\ OverrideLayer["tuesday"] = BeforeSchedule["tuesday"]
    /\ EffectiveOf(load_state, "monday", "NEWS") = DefaultSchedule["monday"]["NEWS"]

(* a remove that takes a block out of tuesday's NEWS while monday has an   *)
(* override                                                                *)
C28_WitnessRemove ==
    /\ LastIs("remove")
    /\ Last.day = "tuesday"
    /\ STATE_FILE # before
    /\ "monday" \in DOMAIN BeforeSchedule
    /\ OverrideLayer["monday"] = BeforeSchedule["monday"]

----------------------------------------------------------------------------
(* epg-generator.py: the schedule grid of the guide                        *)

SKIP_STATIONS == {"EPG", "bumpers", "commercials"}

(* The channels in the order of their numbers, without the skipped names   *)
get_epg_channels ==
    LET numbers == <<"2", "3", "4", "5">>
        rows    == [i \in 1..Len(numbers) |->
                       [number |-> numbers[i],
                        name   |-> get_channels[numbers[i]].name]]
    IN  SelectSeq(rows, LAMBDA ch : ch.name \notin SKIP_STATIONS)

get_schedule_for_channel(station, day) ==
    LET cfg    == load_config
        sched  == get_schedule(cfg, load_state)
        blocks == Get(Get(sched, day, EmptyDict), station, << >>)
        shows  == get_shows(cfg)
    IN  [i \in 1..Len(blocks) |->
            LET show_id == Get(blocks[i], "show_id", "")
            IN  [start   |-> Get(blocks[i], "start", ""),
                 end     |-> Get(blocks[i], "end", ""),
                 show_id |-> show_id,
                 title   |-> Get(Get(shows, show_id, EmptyDict), "title",
                                 show_id)]]

(* The loop at lines 552-558: the title of the first block, in list order, *)
(* that covers the slot; "" when none does                                 *)
RECURSIVE slot_title(_, _)
slot_title(blocks, slot_str) ==
    IF blocks = << >>
    THEN ""
    ELSE LET b       == Head(blocks)
             end_eff == IF b.end = "" \/ b.end = "00:00" THEN "24:00" ELSE b.end
         IN  IF StrLeq(b.start, slot_str) /\ StrLess(slot_str, end_eff)
             THEN b.title
             ELSE slot_title(Tail(blocks), slot_str)

(* The em dash a cell without show is filled with                          *)
Placeholder == "--"

(* The text of the cell of channel ch at slot_str, lines 530-560           *)
render_schedule_grid(ch, today, slot_str) ==
    IF StartsWithMTV(ch.name)
    THEN "Music Videos"
    ELSE LET show_title == slot_title(get_schedule_for_channel(ch.name, today),
                                      slot_str)
         IN  IF show_title = "" THEN Placeholder ELSE show_title

(* The half-hour slots among the times of day                              *)
InSlots == {"00:00", "08:00", "08:30", "09:00", "10:00"}

RenderCell(ch, today, slot_str) ==
    /\ clock' = [day |-> today, time |-> slot_str]
    /\ res' = [call    |-> "render_schedule_grid",
               channel |-> ch.number,
               station |-> ch.name,
               out     |-> render_schedule_grid(ch, today, slot_str)]
    /\ UNCHANGED <<config, STATE_FILE, before, hist, index_tsv, tmp, writers, SEEN_IDS,
                 PENDING_DIR>>

RenderStep ==
    \E i \in 1..Len(get_epg_channels), today \in InDays, slot_str \in InSlots :
        RenderCell(get_epg_channels[i], today, slot_str)

NextGuide == RenderStep

SpecGuide == InitResolve /\ [][NextGuide]_vars

Rendered == "call" \in DOMAIN res /\ res.call = "render_schedule_grid"

(* C29: for every station, day and half-hour slot t the guide's cell shows  *)
(* the show of the block that resolve(station, day, t) returns, and the     *)
(* placeholder when resolve returns none, also when two blocks of the       *)
(* bucket cover t.  Stated for the stations whose cells the guide fills     *)
(* from the schedule; a music-video station gets a fixed text.              *)
C29_GuideAgreesWithResolver ==
    (Rendered /\ ~StartsWithMTV(res.station)) =>
        LET result == resolve_now(load_config, load_state, res.channel, clock)
        IN  res.out = IF result.found
                      THEN Get(result.show, "title", result.show_id)
                      ELSE Placeholder

----------------------------------------------------------------------------
(* eas_poller.py: one iteration of the polling loop                        *)

MaxPolls == 4

(* The number of alerts of a burst: alerts never seen before that are gone *)
(* from the feed by the next poll                                          *)
Burst == 100

(* The number of ids save_seen_ids keeps                                   *)
SEEN_CAP == 200

EVENT_TO_SAME ==
    [event \in {"Tornado Warning", "Special Weather Statement"} |->
        IF event = "Tornado Warning" THEN "TOR" ELSE "SPS"]

(* eas_config.json: polling is on, a location is set, tornado warnings are *)
(* enabled and special weather statements are not                          *)
eas_config ==
    [enabled     |-> TRUE,
     latitude    |-> 35,
     longitude   |-> 97,
     alert_types |-> [code \in {"TOR", "SPS"} |-> code = "TOR"]]

(* An alert id is the sequence of the pieces it is written with            *)
Feature(id, event) == [properties |-> [id |-> id, event |-> event]]

TornadoA  == Feature(<<"urn", ":", "1">>, "Tornado Warning")
TornadoB  == Feature(<<"urn", ":", "2">>, "Tornado Warning")
Statement == Feature(<<"urn", ":", "3">>, "Special Weather Statement")
Advisory  == Feature(<<"urn", ":", "4">>, "Heat Advisory")

(* fetch_alerts: the features of a feed are the followed alerts in it and  *)
(* a number of enabled alerts that no other poll returns                   *)
InFeeds ==
    {[alerts |-> alerts, fresh |-> fresh] :
        alerts \in {<< >>, <<TornadoA>>, <<TornadoA, Statement>>,
                    <<TornadoB, TornadoA>>, <<Advisory>>},
        fresh \in {0, Burst}}

process_alert(feature, enabled_types) ==
    LET props     == Get(feature, "properties", EmptyDict)
        alert_id  == Get(props, "id", << >>)
        event     == Get(props, "event", "")
        same_code == Get(EVENT_TO_SAME, event, "")
    IN  IF same_code = ""
        THEN NoneValue
        ELSE IF ~Get(enabled_types, same_code, FALSE)
             THEN NoneValue
             ELSE [found |-> TRUE, id |-> alert_id, event |-> event,
                   event_code |-> same_code]

(* A set of seen ids: the ids followed, and how many others                *)
NoSeen == [ids |-> {}, others |-> 0]

SeenSize(seen) == Cardinality(seen.ids) + seen.others

load_seen_ids ==
    IF SEEN_IDS.exists THEN SEEN_IDS.seen ELSE NoSeen

(* list(seen)[-200:]: a set is listed in no order the code controls, so    *)
(* any SEEN_CAP of its ids may be the ones kept                            *)
save_seen_ids(seen) ==
    LET kept == IF SeenSize(seen) <= SEEN_CAP THEN SeenSize(seen) ELSE SEEN_CAP
    IN  {[exists |-> TRUE,
          seen   |-> [ids |-> ids, others |-> kept - Cardinality(ids)]] :
            ids \in {s \in SUBSET seen.ids :
                        /\ kept - Cardinality(s) >= 0
                        /\ kept - Cardinality(s) <= seen.others}}

(* The name of the pending file of an alert id                             *)
safe_id(id) ==
    [i \in 1..Len(id) |->
        IF id[i] \in {"urn", "1", "2", "3", "4", "-", "_"} THEN id[i] ELSE "_"]

(* The loop over the features, lines 140-160: the seen set and the alerts  *)
(* written, feature by feature                                             *)
RECURSIVE poll_features(_, _, _)
poll_features(features, seen, written) ==
    IF features = << >>
    THEN [seen |-> seen, written |-> written]
    ELSE LET alert == process_alert(Head(features), eas_config.alert_types)
         IN  IF ~alert.found \/ alert.id \in seen.ids
             THEN poll_features(Tail(features), seen, written)
             ELSE poll_features(Tail(features),
                                [seen EXCEPT !.ids = @ \cup {alert.id}],
                                Append(written, alert.id))

InitPoll ==
    /\ config = TheConfig
    /\ STATE_FILE = NoFile
    /\ before = STATE_FILE
    /\ hist = << >>
    /\ index_tsv = NoIndex
    /\ clock = NoClock
    /\ res = NoneValue
    /\ tmp = NoFile
    /\ writers = NoWriters
    /\ SEEN_IDS = NoFile
    /\ PENDING_DIR = NoPending

(* One iteration whose fetch succeeds, lines 134-164                       *)
Poll(feed) ==
    /\ Len(hist) < MaxPolls
    /\ LET loaded == load_seen_ids
           walked == poll_features(feed.alerts, loaded, << >>)
           seen   == [walked.seen EXCEPT !.others = @ + feed.fresh]
       IN  /\ PENDING_DIR' =
                  [files  |-> PENDING_DIR.files \cup
                                  {safe_id(walked.written[i]) :
                                      i \in 1..Len(walked.written)},
                   others |-> PENDING_DIR.others + feed.fresh]
           /\ SEEN_IDS' \in save_seen_ids(seen)
           /\ hist' = Append(hist, [op |-> "poll", feed |-> feed,
                                    written |-> walked.written])
    /\ UNCHANGED <<config, STATE_FILE, before, index_tsv, clock, res, tmp,
                   writers>>

(* One iteration whose fetch raises, lines 166-177                         *)
FetchError ==
    /\ Len(hist) < MaxPolls
    /\ hist' = Append(hist, [op |-> "error", feed |-> [alerts |-> << >>,
                                                       fresh |-> 0],
                             written |-> << >>])
    /\ UNCHANGED <<config, STATE_FILE, before, index_tsv, clock, res, tmp,
                   writers, SEEN_IDS, PENDING_DIR>>

PollStep == \E feed \in InFeeds : Poll(feed)

NextPoll == PollStep \/ FetchError

SpecPoll == InitPoll /\ [][NextPoll]_vars

(* The feed of iteration k returned a feature with this id                 *)
Returned(k, id) ==
    /\ hist[k].op = "poll"
    /\ \E n \in 1..Len(hist[k].feed.alerts) :
          hist[k].feed.alerts[n].properties.id = id

WrittenIn(k, id) == InSeq(id, hist[k].written)

(* C30: across the polling iterations, an enabled alert id that the feed    *)
(* keeps returning is written to the pending directory in the first         *)
(* iteration that sees it and in no later one, and the persisted list of    *)
(* seen ids holds at most 200 ids after a save.                             *)
C30_WrittenOnceAndCapped ==
    /\ \A i, j \in 1..Len(hist) :
          \A id \in {TornadoA.properties.id, TornadoB.properties.id} :
              (/\ i < j
               /\ WrittenIn(i, id)
               /\ \A k \in i..j : Returned(k, id))
              => ~WrittenIn(j, id)
    /\ SEEN_IDS.exists => SeenSize(SEEN_IDS.seen) <= SEEN_CAP

====
